---------------------------- MODULE Spec2Model ----------------------------
(***************************************************************************)
(* Verification model of stun_forward: the Coordinator (Client and Server  *)
(* bootstrap, mapping-update watcher, periodic refresh), the signaling     *)
(* endpoint, the forwarding-mode decision and the UDP relay listeners.     *)
(*                                                                         *)
(* Specifications:                                                         *)
(*   Spec      Coordinator of both roles against the signaling room, each  *)
(*             HTTP request handled atomically, with a seconds clock       *)
(*   SpecSig   the signaling endpoint's request handlers at the            *)
(*             granularity of their reads and writes of the store file     *)
(*   SpecUDP   the UDP relay listeners of Client and Server                *)
(*   SpecPunch the hole-punch engine: the strategies of                    *)
(*             performSynchronizedHolePunching and their sockets           *)
(*   SpecSess  the session table of one UDP relay listener: getOrCreate,    *)
(*             the sweeper, cancellation                                   *)
(*   SpecTCP   one TCP relay listener: the accept loop, the two tcpProxy   *)
(*             goroutines of each accepted connection, cancellation        *)
(*   SpecTCPFair   SpecTCP with the steps of the listener and of its       *)
(*             goroutines scheduled fairly                                 *)
(*   SpecListener  one relay listener, TCP (SpecTCP) or UDP (SpecSess)     *)
(*   SpecLAN   detectLANConnection applied to two NetworkInfos             *)
(*   SpecFetch one call of SignalingClient.WaitForPeerData: polls, waits,  *)
(*             backoff, deadline and cancellation                          *)
(*   SpecCodec a port mapping written as proto:local:remote, parsed by     *)
(*             both parsers and written again, character by character      *)
(*   SpecProbe the network probe of one host: discoverNetworkInfo and      *)
(*             discoverNATType against a NAT of some kind                  *)
(*   SpecMode  the forwarding-mode decision of Client and Server for one   *)
(*             allocation, with the hole-punch fallback                    *)
(*   SpecCfg   config.Manager: configuration loads, AddMapping and         *)
(*             RemoveMapping on the Client's mappings                      *)
(*   SpecP2P   forwarding over an established hole-punched path:           *)
(*             udpForwardP2P on the Client, udpForwardToService on the Server*)
(*   SpecBus   types.SimpleEventBus: Subscribe, SubscribeAll, the unsubscribe*)
(*             functions, Publish and Close                                *)
(***************************************************************************)
EXTENDS Integers, Sequences, FiniteSets, TLC

VARIABLES
    \* ---- Spec: Coordinator and signaling room ----
    now,            \* wall clock in seconds (time() / time.Now().Unix())
    room,           \* the room of the store: client slot, server slot, mapping_version, client participant version
    spc,            \* handleServerMode: position
    srvClient,      \* handleServerMode: clientData parsed from the fetched registration
    srvPortMappings,\* handleServerMode: portMappings
    serverData,     \* handleServerMode: serverData, the payload formatted at bootstrap
    listeners,      \* Server: listeners started so far
    wpc,            \* WatchMappingUpdates: position
    lastMappingVersion, \* WatchMappingUpdates: lastMappingVersion
    cbData,         \* the client_data handed to the callback
    cbPortMappings, \* handleMappingUpdate: newPortMappings
    cpc,            \* handleClientMode: position
    attempt,        \* handleClientMode: attempt
    cliRaw,         \* handleClientMode: serverRegistrationData, the body received last
    cliServerData,  \* handleClientMode: serverData
    forwarders,     \* Client: forwarders started
    updates,        \* number of UpdateMappings calls made so far
    \* history of the Server's behaviour, read only by the properties
    srvPosted,      \* whether the Server has completed a PostSignal
    srvFirstPost,   \* payload of the Server's first PostSignal
    srvCurrent,     \* the ServerRegistration the Server built last
    handled,        \* per client participant version: how often the Server processed it
    cbVer,          \* participant version of the payload in cbData
    lastVer,        \* participant version of the registration processed last
    \* ---- SpecMode: one allocation handled by the Client and by the Server ----
    mpc,            \* handlePortMappingWithAllocatedPort: position
    mIn,            \* its arguments: mapping, allocatedPort, clientInfo, serverInfo;
                    \* and whether a bind of localPort / allocatedPort succeeds
    mFwd,           \* the forwarder it runs
    mPunched,       \* whether it has invoked hole punching
    mSrv,           \* the Server's task for the allocation: position and listener
    mEngine,        \* per side: outcome of establishP2PConnection ("none", "ok", "failed")
    \* ---- SpecSig: the signaling endpoint under concurrent requests ----
    sigFile,        \* contents of the store file (one room)
    reqs,           \* the requests: kind, arguments, position, local $store, response
    lastCompleted,  \* per role: payload of the publish that completed last
    \* ---- SpecUDP: the UDP relay listeners ----
    cInbox,         \* runUDPClient: datagrams waiting on the listener socket
    cBuf,           \* runUDPClient: contents of buf
    sessions,       \* UDPSessionManager.sessions: the sources that have a session
    upQ,            \* per session: datagrams waiting on its upstream socket
    toUp,           \* datagrams on their way to the Client listener's upstream
    cGo,            \* runUDPClient: the forwarding goroutines
    cOut,           \* datagrams the Client listener wrote back: destination, session
    sInbox,         \* runUDPServerOnPort: datagrams waiting on the listener socket
    sBuf,           \* runUDPServerOnPort: contents of buf
    sGo,            \* runUDPServerOnPort: the forwarding goroutines
    toSvc,          \* datagrams on their way to the local service
    sOut,           \* datagrams the Server listener wrote: destination, origin of the datagram
    sent,           \* per source endpoint: datagrams it has sent
    \* ---- SpecPunch: establishP2PConnection on one side ----
    hpc,            \* performSynchronizedHolePunching: the strategy it is at, or the outcome
    hCfg,           \* HolePunchConfig: private addresses known, IsInitiator, remote port
    hAttempt,       \* strategy 3: attempt
    hOffset,        \* strategy 4: index into portRange
    hStep,          \* position inside the running strategy
    hSock,          \* the socket of the running strategy: deadlines, traffic
    hTried,         \* history: the strategies attempted, in order
    hOpen,          \* history: the sockets the engine has opened and not closed
    hResult,        \* what establishP2PConnection returned
    \* ---- SpecSess: UDPSessionManager of one runUDPClient ----
    tNow,           \* time.Now() in minutes
    tTable,         \* sm.sessions: key -> session (ClientAddr, ServerConn, LastActivity)
    tSocks,         \* the upstream sockets dialed so far, by number: "open" or "closed"
    swpc,           \* CleanupExpiredSessions: "idle", or "sweeping" with sm.mutex held
    swNow,          \* CleanupExpiredSessions: now (0 outside a sweep)
    swTodo,         \* CleanupExpiredSessions: keys the range loop has not visited
    swKey,          \* CleanupExpiredSessions: key whose socket is closed and entry not yet deleted
    swBefore,       \* history: sm.sessions when the sweep in progress began
    tRet,           \* history: the last GetOrCreateSession call: key, socket of the session returned
    tTasks,         \* ctx, the listener loop and the sweeper goroutine
    tAtCancel,      \* history: the sockets of the sessions in the table at cancel
    \* ---- SpecTCP: one TCP relay listener and its pairs ----
    lnpc,           \* runTCPClient: position of the accept loop
    tcpCtx,         \* ctx: "live" or "cancelled"
    backlog,        \* connections waiting to be accepted
    pairs,          \* the accepted connections: endpoints, tcpProxy goroutines, streams
    \* ---- SpecProbe: discoverNetworkInfo on one host ----
    ppc,            \* discoverNetworkInfo / discoverNATType: position
    pNat,           \* the NAT the host is behind
    pRes,           \* discoverNATType: result
    pInfo,          \* discoverNetworkInfo: info, and whether it returned an error
    pHist,          \* history: local port of the bindings of test 1 and test 2, the calls that failed
    \* ---- SpecLAN: detectLANConnection on two NetworkInfos ----
    lanIn,          \* clientInfo, serverInfo
    lanOut,         \* whether it has returned, and what
    \* ---- SpecFetch: one call of WaitForPeerData ----
    fpc,            \* position in the loop
    fNow,           \* time.Now() since the call, in microseconds
    fBackoff,       \* backoff, in microseconds
    fAttempt,       \* attempt
    fCtx,           \* ctx: "live" or "cancelled"
    fWait,          \* the wait in progress or made last, in microseconds, and the attempt it followed
    fRet,           \* what the call returned: payload and error
    \* ---- SpecCodec: a mapping serialized, parsed and serialized again ----
    rtpc,            \* how far the round trip has gone
    rtMap,           \* the mapping
    rtStr,           \* its string, as a sequence of characters
    rtParsed,        \* what the two parsers made of the string
    rtStr2,          \* the string of the parsed mapping
    \* ---- SpecCfg ----
    mgrMappings,    \* Manager.config.Mappings
    mgrErr,         \* what the last operation returned
    \* ---- SpecP2P ----
    hpInbox,        \* datagrams waiting at each socket or endpoint, with where they came from
    hpBuf,          \* udpForwardToService: buffer, shared by its two loops
    hpTasks,        \* position of each forwarding task
    hpLog,          \* the writes the tasks have made
    hpSent,         \* datagrams sent by the application and the peers
    \* ---- SpecBus ----
    ebHandlers,     \* SimpleEventBus.handlers, the handlers named by their subscription
    ebAll,          \* SimpleEventBus.allHandlers
    ebClosed,       \* SimpleEventBus.closed
    ebSubs,         \* history: the subscriptions made, and whether their unsubscribe function was called
    ebLog,          \* history: the deliveries, each with whether the handler was unsubscribed when the event was published
    ebEvents        \* history: the events published

coordVars == <<now, room, spc, srvClient, srvPortMappings, serverData, listeners,
               wpc, lastMappingVersion, cbData, cbPortMappings,
               cpc, attempt, cliRaw, cliServerData, forwarders, updates,
               srvPosted, srvFirstPost, srvCurrent, handled, cbVer, lastVer>>

srvVars == <<spc, srvClient, srvPortMappings, serverData>>
watchVars == <<wpc, lastMappingVersion, cbData, cbPortMappings, cbVer>>
cliVars == <<cpc, attempt, cliRaw, cliServerData, forwarders, updates>>
histVars == <<srvPosted, srvFirstPost, srvCurrent, handled, lastVer>>

modeVars == <<mpc, mIn, mFwd, mPunched, mSrv, mEngine>>
sigVars == <<sigFile, reqs, lastCompleted>>
udpVars == <<cInbox, cBuf, sessions, upQ, toUp, cGo, cOut, sInbox, sBuf, sGo, toSvc, sOut, sent>>

punchVars == <<hpc, hCfg, hAttempt, hOffset, hStep, hSock, hTried, hOpen, hResult>>

sessVars == <<tNow, tTable, tSocks, swpc, swNow, swTodo, swKey, swBefore, tRet, tTasks, tAtCancel>>

tcpVars == <<lnpc, tcpCtx, backlog, pairs>>

probeVars == <<ppc, pNat, pRes, pInfo, pHist>>

lanVars == <<lanIn, lanOut>>

fetchVars == <<fpc, fNow, fBackoff, fAttempt, fCtx, fWait, fRet>>

codecVars == <<rtpc, rtMap, rtStr, rtParsed, rtStr2>>

cfgVars == <<mgrMappings, mgrErr>>

p2pVars == <<hpInbox, hpBuf, hpTasks, hpLog, hpSent>>

busVars == <<ebHandlers, ebAll, ebClosed, ebSubs, ebLog, ebEvents>>

vars == <<coordVars, modeVars, sigVars, udpVars, punchVars, sessVars, tcpVars, probeVars, lanVars,
          fetchVars, codecVars,
          cfgVars,
          p2pVars,
          busVars>>

\* the variables of the other specifications
notCoord == <<modeVars, sigVars, udpVars, punchVars, sessVars, tcpVars, probeVars, lanVars, fetchVars, codecVars, cfgVars, p2pVars, busVars>>
notMode == <<coordVars, sigVars, udpVars, punchVars, sessVars, tcpVars, probeVars, lanVars, fetchVars, codecVars, cfgVars, p2pVars, busVars>>
notSig == <<coordVars, modeVars, udpVars, punchVars, sessVars, tcpVars, probeVars, lanVars, fetchVars, codecVars, cfgVars, p2pVars, busVars>>
notUDP == <<coordVars, modeVars, sigVars, punchVars, sessVars, tcpVars, probeVars, lanVars, fetchVars, codecVars, cfgVars, p2pVars, busVars>>
notPunch == <<coordVars, modeVars, sigVars, udpVars, sessVars, tcpVars, probeVars, lanVars, fetchVars, codecVars, cfgVars, p2pVars, busVars>>
notSess == <<coordVars, modeVars, sigVars, udpVars, punchVars, tcpVars, probeVars, lanVars, fetchVars, codecVars, cfgVars, p2pVars, busVars>>
notTCP == <<coordVars, modeVars, sigVars, udpVars, punchVars, sessVars, probeVars, lanVars, fetchVars, codecVars, cfgVars, p2pVars, busVars>>
notProbe == <<coordVars, modeVars, sigVars, udpVars, punchVars, sessVars, tcpVars, lanVars, fetchVars, codecVars, cfgVars, p2pVars, busVars>>
notLAN == <<coordVars, modeVars, sigVars, udpVars, punchVars, sessVars, tcpVars, probeVars, fetchVars, codecVars, cfgVars, p2pVars, busVars>>
notFetch == <<coordVars, modeVars, sigVars, udpVars, punchVars, sessVars, tcpVars, probeVars, lanVars, codecVars, cfgVars, p2pVars, busVars>>
notCodec == <<coordVars, modeVars, sigVars, udpVars, punchVars, sessVars, tcpVars, probeVars, lanVars, fetchVars, cfgVars, p2pVars, busVars>>
notCfg == <<coordVars, modeVars, sigVars, udpVars, punchVars, sessVars, tcpVars, probeVars, lanVars, fetchVars, codecVars, p2pVars, busVars>>
notP2P == <<coordVars, modeVars, sigVars, udpVars, punchVars, sessVars, tcpVars, probeVars, lanVars, fetchVars, codecVars, cfgVars, busVars>>
notBus == <<coordVars, modeVars, sigVars, udpVars, punchVars, sessVars, tcpVars, probeVars, lanVars, fetchVars, codecVars, cfgVars, p2pVars>>

-----------------------------------------------------------------------------
\* Bounds of the model

MaxTime == 2
MaxUpdates == 1
NumPorts == 3

-----------------------------------------------------------------------------
\* Addresses and NetworkInfo

\* the empty address string
NoIP == <<>>

\* extractIP: the host part of "ip:port", or the string itself
extractIP(addr) == addr.ip

Addr(ip, port) == [ip |-> ip, port |-> port]

\* isPrivateIP: 10.0.0.0/8, 172.16.0.0/12, 192.168.0.0/16
isPrivateIP(ip) ==
    \/ ip[1] = 10
    \/ ip[1] = 172 /\ ip[2] \div 16 = 1
    \/ ip[1] = 192 /\ ip[2] = 168

isIn192168Range(ip) == ip[1] = 192 /\ ip[2] = 168
isIn10Range(ip) == ip[1] = 10

\* isIn172Range taken for 172.16.0.0/16
isIn172Range_Slash16(ip) == ip[1] = 172 /\ ip[2] = 16

isIn172Range(ip) == ip[1] = 172 /\ ip[2] \div 16 = 1

\* isLANAddress: both private and in one /24, or one /16 of 192.168/16,
\* or both in 10/8, or both in 172.16/12
isLANAddress(addr1, addr2) ==
    LET ip1 == extractIP(addr1)
        ip2 == extractIP(addr2)
    IN  IF ip1 = NoIP \/ ip2 = NoIP THEN FALSE
        ELSE IF ~isPrivateIP(ip1) \/ ~isPrivateIP(ip2) THEN FALSE
        ELSE IF <<ip1[1], ip1[2], ip1[3]>> = <<ip2[1], ip2[2], ip2[3]>> THEN TRUE
        ELSE IF isIn192168Range(ip1) /\ isIn192168Range(ip2)
                /\ <<ip1[1], ip1[2]>> = <<ip2[1], ip2[2]>> THEN TRUE
        ELSE IF isIn10Range(ip1) /\ isIn10Range(ip2) /\ ip1[1] = ip2[1] THEN TRUE
        ELSE IF isIn172Range(ip1) /\ isIn172Range(ip2)
                /\ <<ip1[1], ip1[2] \div 16>> = <<ip2[1], ip2[2] \div 16>> THEN TRUE
        ELSE FALSE

\* detectLANConnection: same public IP, or private addresses on one LAN
detectLANConnection(clientInfo, serverInfo) ==
    IF /\ clientInfo.PublicAddr.ip # NoIP
       /\ serverInfo.PublicAddr.ip # NoIP
       /\ extractIP(clientInfo.PublicAddr) = extractIP(serverInfo.PublicAddr)
    THEN TRUE
    ELSE IF /\ clientInfo.PrivateAddr.ip # NoIP
            /\ serverInfo.PrivateAddr.ip # NoIP
            /\ isLANAddress(clientInfo.PrivateAddr, serverInfo.PrivateAddr)
    THEN TRUE
    ELSE FALSE

\* STUNResult: nil or a result with its CanHolePunch flag
NilSTUN == [nil |-> TRUE, CanHolePunch |-> FALSE]
STUN(can) == [nil |-> FALSE, CanHolePunch |-> can]

NetworkInfo(pub, priv, stun) ==
    [PublicAddr |-> pub, PrivateAddr |-> priv, STUNResult |-> stun]

\* the zero value of NetworkInfo
ZeroNetworkInfo == NetworkInfo(Addr(NoIP, 0), Addr(NoIP, 0), NilSTUN)

\* network information of the two hosts of the Coordinator specification
ClientNet == NetworkInfo(Addr(<<198, 51, 100, 7>>, 40000), Addr(<<192, 168, 1, 10>>, 0), STUN(TRUE))
ServerNet == NetworkInfo(Addr(<<203, 0, 113, 5>>, 50000), Addr(<<10, 0, 0, 2>>, 0), STUN(TRUE))

-----------------------------------------------------------------------------
\* Port mappings and their string form "proto:local:remote"
\* A mapping string is the sequence of its colon-separated fields; a field
\* is either a decimal numeral (with the number it denotes) or another word.

Word(w) == [num |-> FALSE, w |-> w, n |-> 0]
Num(n) == [num |-> TRUE, w |-> "", n |-> n]

PortMapping(proto, local, remote) ==
    [Protocol |-> proto, LocalPort |-> local, RemotePort |-> remote]

\* strings.ToLower on the words used here
ToLower(w) == IF w = "TCP" THEN "tcp" ELSE IF w = "UDP" THEN "udp" ELSE w

\* strconv.Atoi succeeds on numerals only
AtoiOK(f) == f.num

\* PortMapping.parseFromString returns no error
ParseOK(s) ==
    /\ Len(s) = 3
    /\ ~s[1].num
    /\ ToLower(s[1].w) \in {"tcp", "udp"}
    /\ AtoiOK(s[2])
    /\ AtoiOK(s[3])

\* PortMapping.parseFromString, the mapping it stores where ParseOK
parseFromString(s) == PortMapping(ToLower(s[1].w), s[2].n, s[3].n)

\* fmt.Sprintf("%s:%d:%d", ...) of formatClientRegistrationData
FormatMapping(m) == <<Word(m.Protocol), Num(m.LocalPort), Num(m.RemotePort)>>

MapSeq(Op(_), s) == [i \in 1..Len(s) |-> Op(s[i])]

Range(s) == {s[i] : i \in DOMAIN s}

\* config.Mappings of the Client and the lists its updater may send
M1 == PortMapping("tcp", 15001, 22)
M2 == PortMapping("udp", 17000, 53)
ConfigMappings == <<M1>>
UpdateLists == { <<FormatMapping(M1), FormatMapping(M2)>>,
                 <<FormatMapping(M1)>>,
                 <<FormatMapping(M1), <<Word("xyz"), Num(1), Num(1)>>>> }

-----------------------------------------------------------------------------
\* Payload strings of the room
\* A payload is described by what the code inspects of it: whether it
\* starts with "{", whether it contains "|", and the JSON document it
\* denotes (or none when it is not JSON).

Absent == [present |-> FALSE]
InvalidDoc == [valid |-> FALSE]

Payload(brace, pipe, doc) ==
    [present |-> TRUE, brace |-> brace, pipe |-> pipe, doc |-> doc]

\* formatNetworkInfo of the earlier protocol: "public|private"
LegacyPayload == Payload(FALSE, TRUE, InvalidDoc)
\* a body that is neither JSON nor pipe-delimited
GarbagePayload == Payload(FALSE, FALSE, InvalidDoc)
\* a truncated JSON object
BrokenJSONPayload == Payload(TRUE, TRUE, InvalidDoc)

formatClientRegistrationData(info, mappings) ==
    Payload(TRUE, FALSE,
            [valid |-> TRUE, networkInfo |-> info,
             mappings |-> MapSeq(FormatMapping, mappings)])

formatServerRegistrationData(info, portMappings) ==
    Payload(TRUE, FALSE,
            [valid |-> TRUE, networkInfo |-> info, portMappings |-> portMappings])

\* json.Unmarshal into ClientRegistrationData: absent fields stay zero
parseClientOK(data) == data.doc.valid
parseClientRegistrationData(data) ==
    [NetworkInfo |-> IF "networkInfo" \in DOMAIN data.doc
                     THEN data.doc.networkInfo ELSE ZeroNetworkInfo,
     Mappings |-> IF "mappings" \in DOMAIN data.doc THEN data.doc.mappings ELSE <<>>]

\* parseServerOK with the error of json.Unmarshal dropped
parseServerOK_IgnoresError(data) == TRUE

\* json.Unmarshal into ServerRegistrationData: absent fields stay zero
parseServerOK(data) == data.doc.valid
parseServerRegistrationData(data) ==
    [NetworkInfo |-> IF "networkInfo" \in DOMAIN data.doc
                     THEN data.doc.networkInfo ELSE ZeroNetworkInfo,
     PortMappings |-> IF "portMappings" \in DOMAIN data.doc
                      THEN data.doc.portMappings ELSE <<>>]

\* the stale-payload test of handleClientMode
IsOldFormat(data) == data.pipe /\ ~data.brace

-----------------------------------------------------------------------------
\* Signaling endpoint, one request handled at a time

\* update_participant_data at time t: store the payload in the role's slot,
\* bump the participant version, and stamp mapping_version with time() when
\* a client payload decodes to an object with a mappings key
update_participant_data(r, role, data, t) ==
    LET r1 == IF role = "client"
              THEN [r EXCEPT !.client = data, !.cver = @ + 1]
              ELSE [r EXCEPT !.server = data]
    IN  IF role = "client" /\ data.doc.valid /\ "mappings" \in DOMAIN data.doc
        THEN [r1 EXCEPT !.mapping_version = t]
        ELSE r1

\* the PUT handler: replace the mappings of the stored client registration
put_mappings(r, mappings, t) ==
    LET client_data == [r.client.doc EXCEPT !.mappings = mappings]
    IN  update_participant_data(r, "client", [r.client EXCEPT !.doc = client_data], t)

\* check_mapping_updates: has_update of the answer
has_update(r, last_known_version) == r.mapping_version > last_known_version

-----------------------------------------------------------------------------
\* Port allocation and listeners of the Server

PortPool == 1..NumPorts

\* ports the kernel can hand out for a protocol: those no socket is bound to
FreePorts(proto, ls) ==
    PortPool \ {l.port : l \in {x \in ls : x.protocol = proto /\ x.bound}}

\* hole punching is chosen for a UDP listener (handleServerMode, handleMappingUpdate)
ServerCanPunch(serverInfo, clientInfo) ==
    /\ ~detectLANConnection(serverInfo, clientInfo)
    /\ ~serverInfo.STUNResult.nil
    /\ ~clientInfo.STUNResult.nil
    /\ serverInfo.STUNResult.CanHolePunch
    /\ clientInfo.STUNResult.CanHolePunch

\* the task started for one allocation; only the relay listeners and the TCP
\* listener bind the allocated port
ListenerFor(pm, serverInfo, clientInfo) ==
    IF pm.ClientMapping.Protocol = "tcp"
    THEN [fn |-> "runTCPServerOnPort", protocol |-> "tcp", port |-> pm.AllocatedPort,
          service |-> pm.ClientMapping.RemotePort, bound |-> TRUE]
    ELSE IF ServerCanPunch(serverInfo, clientInfo)
    THEN [fn |-> "runUDPServerWithHolePunching", protocol |-> "udp", port |-> pm.AllocatedPort,
          service |-> pm.ClientMapping.RemotePort, bound |-> FALSE]
    ELSE [fn |-> "runUDPServerOnPort", protocol |-> "udp", port |-> pm.AllocatedPort,
          service |-> pm.ClientMapping.RemotePort, bound |-> TRUE]

\* net.Listen fails (log.Fatalf) when the port is already bound
BindConflict(new, ls) ==
    \E l \in new : l.bound /\
        \E o \in (ls \cup new) \ {l} : o.bound /\ o.protocol = l.protocol /\ o.port = l.port

\* allocatePortForMapping for each mapping of a list: ports[i] is the port the
\* kernel returns for the i-th mapping, 0 when it has none to give
AllocationOK(ms, ports, ls) ==
    \A i \in 1..Len(ms) :
        IF FreePorts(ms[i].Protocol, ls) = {} THEN ports[i] = 0
        ELSE ports[i] \in FreePorts(ms[i].Protocol, ls)

ServerPortMapping(m, port) == [ClientMapping |-> m, AllocatedPort |-> port]

-----------------------------------------------------------------------------
\* The Client's choice of forwarder for one allocation
\* (handlePortMappingWithAllocatedPort up to the call it makes first)

\* BothCanHolePunch satisfied by one side alone
BothCanHolePunch_Either(clientInfo, serverInfo) ==
    \/ ~clientInfo.STUNResult.nil /\ clientInfo.STUNResult.CanHolePunch
    \/ ~serverInfo.STUNResult.nil /\ serverInfo.STUNResult.CanHolePunch

BothCanHolePunch(clientInfo, serverInfo) ==
    /\ ~clientInfo.STUNResult.nil
    /\ ~serverInfo.STUNResult.nil
    /\ clientInfo.STUNResult.CanHolePunch
    /\ serverInfo.STUNResult.CanHolePunch

Forwarder(fn, localPort, host, port) ==
    [fn |-> fn, localPort |-> localPort, host |-> host, port |-> port]

PlanForwarder(mapping, allocatedPort, clientInfo, serverInfo) ==
    IF detectLANConnection(clientInfo, serverInfo)
    THEN Forwarder(IF mapping.Protocol = "tcp" THEN "runTCPClient" ELSE "runUDPClient",
                   mapping.LocalPort, extractIP(serverInfo.PrivateAddr), allocatedPort)
    ELSE IF mapping.Protocol = "udp"
    THEN IF BothCanHolePunch(clientInfo, serverInfo)
         THEN Forwarder("runUDPClientWithHolePunching", mapping.LocalPort, NoIP, allocatedPort)
         ELSE Forwarder("runUDPClient", mapping.LocalPort,
                        extractIP(serverInfo.PublicAddr), allocatedPort)
    ELSE Forwarder("runTCPClient", mapping.LocalPort,
                   extractIP(serverInfo.PublicAddr), allocatedPort)

-----------------------------------------------------------------------------
\* Specification Spec: Coordinator of Client and Server

maxRetries == 5

\* the server slot may hold what an earlier session of the room left in it
CoordInit ==
    /\ now = 1
    /\ \E stale \in {Absent, LegacyPayload, GarbagePayload, BrokenJSONPayload} :
          room = [client |-> Absent, server |-> stale, mapping_version |-> 0, cver |-> 0]
    /\ spc = "start"
    /\ srvClient = [NetworkInfo |-> ZeroNetworkInfo, Mappings |-> <<>>]
    /\ srvPortMappings = <<>>
    /\ serverData = Absent
    /\ listeners = {}
    /\ wpc = "off"
    /\ lastMappingVersion = 0
    /\ cbData = Absent
    /\ cbPortMappings = <<>>
    /\ cbVer = 0
    /\ cpc = "publish"
    /\ attempt = 1
    /\ cliRaw = Absent
    /\ cliServerData = [NetworkInfo |-> ZeroNetworkInfo, PortMappings |-> <<>>]
    /\ forwarders = {}
    /\ updates = 0
    /\ srvPosted = FALSE
    /\ srvFirstPost = Absent
    /\ srvCurrent = Absent
    /\ handled = [v \in 0..(MaxUpdates + 1) |-> 0]
    /\ lastVer = 0

\* one second passes
Tick ==
    /\ now < MaxTime
    /\ now' = now + 1
    /\ UNCHANGED <<room, listeners, srvVars, watchVars, cliVars, histVars, notCoord>>

\* ---- handleClientMode ----

\* PostSignal of the ClientRegistration
CliPublish ==
    /\ cpc = "publish"
    /\ room' = update_participant_data(room, "client",
                    formatClientRegistrationData(ClientNet, ConfigMappings), now)
    /\ cpc' = "fetch"
    /\ attempt' = 1
    /\ UNCHANGED <<now, listeners, cliRaw, cliServerData, forwarders, updates,
                   srvVars, watchVars, histVars, notCoord>>

\* a failed attempt: fatal at the last one, else the next attempt
CliRetry ==
    /\ cliRaw' = room.server
    /\ IF attempt = maxRetries
       THEN cpc' = "fatal" /\ attempt' = attempt
       ELSE cpc' = cpc /\ attempt' = attempt + 1
    /\ UNCHANGED <<now, room, listeners, cliServerData, forwarders, updates,
                   srvVars, watchVars, histVars, notCoord>>

\* WaitForPeerData finds no server payload until its deadline
CliFetchFail ==
    /\ cpc = "fetch"
    /\ ~room.server.present
    /\ CliRetry

\* the payload is of the old pipe-delimited format
CliFetchOldFormat ==
    /\ cpc = "fetch"
    /\ room.server.present
    /\ IsOldFormat(room.server)
    /\ CliRetry

\* the payload does not parse
CliFetchUnparsable ==
    /\ cpc = "fetch"
    /\ room.server.present
    /\ ~IsOldFormat(room.server)
    /\ ~parseServerOK(room.server)
    /\ CliRetry

\* the payload parses as a ServerRegistration
CliFetchOK ==
    /\ cpc = "fetch"
    /\ room.server.present
    /\ ~IsOldFormat(room.server)
    /\ parseServerOK(room.server)
    /\ cliRaw' = room.server
    /\ cliServerData' = parseServerRegistrationData(room.server)
    /\ cpc' = "start"
    /\ UNCHANGED <<now, room, listeners, attempt, forwarders, updates,
                   srvVars, watchVars, histVars, notCoord>>

\* one forwarder per allocation, then the mapping updater
CliStartForwarders ==
    /\ cpc = "start"
    /\ forwarders' = { PlanForwarder(pm.ClientMapping, pm.AllocatedPort,
                                     ClientNet, cliServerData.NetworkInfo) :
                       pm \in Range(cliServerData.PortMappings) }
    /\ cpc' = "ready"
    /\ UNCHANGED <<now, room, listeners, attempt, cliRaw, cliServerData, updates,
                   srvVars, watchVars, histVars, notCoord>>

\* SignalingClient.UpdateMappings: PUT of a new mapping list
CliUpdate ==
    /\ cpc = "ready"
    /\ updates < MaxUpdates
    /\ room.client.present
    /\ \E list \in UpdateLists : room' = put_mappings(room, list, now)
    /\ updates' = updates + 1
    /\ UNCHANGED <<now, listeners, cpc, attempt, cliRaw, cliServerData, forwarders,
                   srvVars, watchVars, histVars, notCoord>>

\* ---- handleServerMode ----

\* SrvStart with the initial "public|private" post of the earlier protocol
SrvStart_PostsInitialData ==
    /\ spc = "start"
    /\ spc' = "fetch"
    /\ room' = update_participant_data(room, "server", LegacyPayload, now)
    /\ srvFirstPost' = IF srvPosted THEN srvFirstPost ELSE LegacyPayload
    /\ srvPosted' = TRUE
    /\ UNCHANGED <<now, listeners, srvClient, srvPortMappings, serverData,
                   watchVars, cliVars, srvCurrent, handled, lastVer, notCoord>>

\* the start of handleServerMode: network discovery and the signaling
\* client; nothing is posted before the client registration is read
SrvStart ==
    /\ spc = "start"
    /\ spc' = "fetch"
    /\ UNCHANGED <<now, room, listeners, srvClient, srvPortMappings, serverData,
                   watchVars, cliVars, histVars, notCoord>>

\* WaitForPeerData for the client registration reaches its 60 s deadline
SrvFetchTimeout ==
    /\ spc = "fetch"
    /\ ~room.client.present
    /\ spc' = "fatal"
    /\ UNCHANGED <<now, room, listeners, srvClient, srvPortMappings, serverData,
                   watchVars, cliVars, histVars, notCoord>>

\* fetch the client registration, parse it and its mappings, allocate a port
\* for each mapping and format the ServerRegistration; any failure is fatal
SrvAllocate ==
    /\ spc = "fetch"
    /\ room.client.present
    /\ IF ~parseClientOK(room.client)
       THEN /\ spc' = "fatal"
            /\ UNCHANGED <<srvClient, srvPortMappings, serverData, srvCurrent, handled, lastVer>>
       ELSE LET clientData == parseClientRegistrationData(room.client)
            IN  /\ srvClient' = clientData
                /\ handled' = [handled EXCEPT ![room.cver] = @ + 1]
                /\ lastVer' = room.cver
                /\ IF \E i \in 1..Len(clientData.Mappings) : ~ParseOK(clientData.Mappings[i])
                   THEN /\ spc' = "fatal"
                        /\ UNCHANGED <<srvPortMappings, serverData, srvCurrent>>
                   ELSE LET parsedMappings == MapSeq(parseFromString, clientData.Mappings)
                        IN  \E ports \in [1..Len(parsedMappings) -> PortPool \cup {0}] :
                              /\ AllocationOK(parsedMappings, ports, listeners)
                              /\ IF \E i \in 1..Len(ports) : ports[i] = 0
                                 THEN /\ spc' = "fatal"
                                      /\ UNCHANGED <<srvPortMappings, serverData, srvCurrent>>
                                 ELSE LET portMappings ==
                                            [i \in 1..Len(parsedMappings) |->
                                                ServerPortMapping(parsedMappings[i], ports[i])]
                                      IN  /\ srvPortMappings' = portMappings
                                          /\ serverData' = formatServerRegistrationData(ServerNet, portMappings)
                                          /\ srvCurrent' = formatServerRegistrationData(ServerNet, portMappings)
                                          /\ spc' = "publish"
    /\ UNCHANGED <<now, room, listeners, watchVars, cliVars, srvPosted, srvFirstPost, notCoord>>

\* PostSignal of the ServerRegistration
SrvPublish ==
    /\ spc = "publish"
    /\ room' = update_participant_data(room, "server", serverData, now)
    /\ srvFirstPost' = IF srvPosted THEN srvFirstPost ELSE serverData
    /\ srvPosted' = TRUE
    /\ spc' = "listen"
    /\ UNCHANGED <<now, listeners, srvClient, srvPortMappings, serverData,
                   watchVars, cliVars, srvCurrent, handled, lastVer, notCoord>>

\* start a listener per allocation, then the watcher
SrvStartListeners ==
    /\ spc = "listen"
    /\ LET new == { ListenerFor(pm, ServerNet, srvClient.NetworkInfo) :
                    pm \in Range(srvPortMappings) }
       IN  /\ listeners' = listeners \cup new
           /\ IF BindConflict(new, listeners)
              THEN spc' = "fatal" /\ wpc' = wpc
              ELSE spc' = "running" /\ wpc' = "idle"
    /\ UNCHANGED <<now, room, srvClient, srvPortMappings, serverData,
                   lastMappingVersion, cbData, cbPortMappings, cbVer,
                   cliVars, histVars, notCoord>>

\* the 30 s ticker: PostSignal of serverData
SrvRefresh ==
    /\ spc = "running"
    /\ room' = update_participant_data(room, "server", serverData, now)
    /\ UNCHANGED <<now, listeners, srvVars, watchVars, cliVars, histVars, notCoord>>

\* ---- WatchMappingUpdates and handleMappingUpdate ----

\* a tick of the watcher whose CheckMappingUpdates reports an update
WatchCheck ==
    /\ wpc = "idle"
    /\ spc = "running"
    /\ has_update(room, lastMappingVersion)
    /\ room.client.present
    /\ cbData' = room.client
    /\ cbVer' = room.cver
    /\ wpc' = "callback"
    /\ UNCHANGED <<now, room, listeners, srvVars, lastMappingVersion, cbPortMappings,
                   cliVars, histVars, notCoord>>

\* handleMappingUpdate up to its PostSignal: parse, skip malformed mappings,
\* allocate a port per mapping (skipping failed allocations), publish
CbReconcile ==
    /\ wpc = "callback"
    /\ handled' = [handled EXCEPT ![cbVer] = IF @ < 2 THEN @ + 1 ELSE @]
    /\ lastVer' = cbVer
    /\ IF ~parseClientOK(cbData)
       THEN /\ wpc' = "return"
            /\ UNCHANGED <<room, cbPortMappings, srvCurrent>>
       ELSE LET newClientRegistration == parseClientRegistrationData(cbData)
                newMappings == MapSeq(parseFromString,
                                      SelectSeq(newClientRegistration.Mappings, ParseOK))
            IN  \E ports \in [1..Len(newMappings) -> PortPool \cup {0}] :
                  /\ AllocationOK(newMappings, ports, listeners)
                  /\ LET all == [i \in 1..Len(newMappings) |->
                                    ServerPortMapping(newMappings[i], ports[i])]
                         newPortMappings == SelectSeq(all, LAMBDA pm : pm.AllocatedPort # 0)
                         updatedServerData ==
                             formatServerRegistrationData(ServerNet, newPortMappings)
                     IN  /\ cbPortMappings' = newPortMappings
                         /\ room' = update_participant_data(room, "server", updatedServerData, now)
                         /\ srvCurrent' = updatedServerData
                         /\ wpc' = "listen"
    /\ UNCHANGED <<now, listeners, srvVars, lastMappingVersion, cbData, cbVer,
                   cliVars, srvPosted, srvFirstPost, notCoord>>

\* handleMappingUpdate after its PostSignal: start a listener per new
\* allocation; then the watcher sets lastMappingVersion to time.Now().Unix()
CbFinish ==
    /\ wpc \in {"listen", "return"}
    /\ LET new == IF wpc = "listen"
                  THEN { ListenerFor(pm, ServerNet, parseClientRegistrationData(cbData).NetworkInfo) :
                         pm \in Range(cbPortMappings) }
                  ELSE {}
       IN  /\ listeners' = listeners \cup new
           /\ IF BindConflict(new, listeners)
              THEN spc' = "fatal" /\ wpc' = "off" /\ lastMappingVersion' = lastMappingVersion
              ELSE spc' = spc /\ wpc' = "idle" /\ lastMappingVersion' = now
    /\ UNCHANGED <<now, room, srvClient, srvPortMappings, serverData,
                   cbData, cbPortMappings, cbVer, cliVars, histVars, notCoord>>

Next ==
    \/ Tick
    \/ CliPublish
    \/ CliFetchFail
    \/ CliFetchOldFormat
    \/ CliFetchUnparsable
    \/ CliFetchOK
    \/ CliStartForwarders
    \/ CliUpdate
    \/ SrvStart
    \/ SrvFetchTimeout
    \/ SrvAllocate
    \/ SrvPublish
    \/ SrvStartListeners
    \/ SrvRefresh
    \/ WatchCheck
    \/ CbReconcile
    \/ CbFinish

-----------------------------------------------------------------------------
\* Specification SpecMode: handlePortMappingWithAllocatedPort for one
\* allocation, over a range of network informations of the two sides

ModePublicIPs == { <<203, 0, 113, 5>>, <<198, 51, 100, 7>>, NoIP }
ModePrivateIPs == { <<192, 168, 1, 10>>, <<192, 168, 2, 20>>, <<10, 0, 0, 1>>, NoIP }
ModeSTUNs == { NilSTUN, STUN(TRUE), STUN(FALSE) }
ModeInfos == { NetworkInfo(Addr(pub, IF pub = NoIP THEN 0 ELSE 40000), Addr(priv, 0), stun) :
               pub \in ModePublicIPs, priv \in ModePrivateIPs, stun \in ModeSTUNs }

NoForwarder == Forwarder("none", 0, NoIP, 0)

\* the Server has started no task for the allocation
NoListener == [fn |-> "none", protocol |-> "", port |-> 0, service |-> 0, bound |-> FALSE]

ModeInit ==
    /\ mpc = "start"
    /\ \E mapping \in {M1, M2}, clientInfo \in ModeInfos, serverInfo \in ModeInfos,
          localFree \in BOOLEAN, allocatedFree \in BOOLEAN :
          mIn = [mapping |-> mapping, allocatedPort |-> 1,
                 clientInfo |-> clientInfo, serverInfo |-> serverInfo,
                 localPortFree |-> localFree, allocatedPortFree |-> allocatedFree]
    /\ mFwd = NoForwarder
    /\ mPunched = FALSE
    /\ mSrv = [pc |-> "start", l |-> NoListener]
    /\ mEngine = [client |-> "none", server |-> "none"]

\* the forwarder called first: a relay, or the hole-punching forwarder; a
\* relay binds localPort at once and log.Fatalf ends the process when it cannot
ModeStart ==
    /\ mpc = "start"
    /\ LET f == PlanForwarder(mIn.mapping, mIn.allocatedPort, mIn.clientInfo, mIn.serverInfo)
       IN  /\ mFwd' = f
           /\ mPunched' = (f.fn = "runUDPClientWithHolePunching")
           /\ mpc' = IF f.fn = "runUDPClientWithHolePunching" THEN "punching"
                     ELSE IF mIn.localPortFree THEN "forwarding" ELSE "fatal"
    /\ UNCHANGED <<mIn, mSrv, mEngine, notMode>>

\* runUDPClient called as the fallback of runUDPClientWithHolePunching
ClientFallback ==
    /\ mFwd' = Forwarder("runUDPClient", mIn.mapping.LocalPort,
                         extractIP(mIn.serverInfo.PublicAddr), mIn.allocatedPort)
    /\ mpc' = IF mIn.localPortFree THEN "forwarding" ELSE "fatal"

\* establishP2PConnection succeeds: the listener binds localPort and forwards
\* over the path; when the bind fails the error is returned and the caller
\* falls back as for a failed engine
ModePunchOK ==
    /\ mpc = "punching"
    /\ mEngine' = [mEngine EXCEPT !.client = "ok"]
    /\ IF mIn.localPortFree
       THEN mpc' = "forwarding" /\ UNCHANGED mFwd
       ELSE ClientFallback
    /\ UNCHANGED <<mIn, mPunched, mSrv, notMode>>

\* establishP2PConnection returns an error: relay to the public address
ModePunchFail ==
    /\ mpc = "punching"
    /\ mEngine' = [mEngine EXCEPT !.client = "failed"]
    /\ ClientFallback
    /\ UNCHANGED <<mIn, mPunched, mSrv, notMode>>

\* the Server's task for the allocation (handleServerMode, handleMappingUpdate):
\* the TCP and the relay listener bind allocatedPort, the hole-punching task
\* binds nothing
ModeSrvStart ==
    /\ mSrv.pc = "start"
    /\ LET l == ListenerFor(ServerPortMapping(mIn.mapping, mIn.allocatedPort),
                            mIn.serverInfo, mIn.clientInfo)
       IN  mSrv' = IF ~l.bound THEN [pc |-> "punching", l |-> l]
                   ELSE IF mIn.allocatedPortFree THEN [pc |-> "listening", l |-> l]
                   ELSE [pc |-> "fatal", l |-> [l EXCEPT !.bound = FALSE]]
    /\ UNCHANGED <<mpc, mIn, mFwd, mPunched, mEngine, notMode>>

\* runUDPServerWithHolePunching succeeds: forwards between path and service
ModeSrvPunchOK ==
    /\ mSrv.pc = "punching"
    /\ mEngine' = [mEngine EXCEPT !.server = "ok"]
    /\ mSrv' = [mSrv EXCEPT !.pc = "forwarding"]
    /\ UNCHANGED <<mpc, mIn, mFwd, mPunched, notMode>>

\* runUDPServerWithHolePunching returns an error: runUDPServerOnPort on the
\* allocated port, log.Fatalf when the port cannot be bound
ModeSrvPunchFail ==
    /\ mSrv.pc = "punching"
    /\ mEngine' = [mEngine EXCEPT !.server = "failed"]
    /\ mSrv' = [pc |-> IF mIn.allocatedPortFree THEN "listening" ELSE "fatal",
                l |-> [mSrv.l EXCEPT !.fn = "runUDPServerOnPort",
                                     !.bound = mIn.allocatedPortFree]]
    /\ UNCHANGED <<mpc, mIn, mFwd, mPunched, notMode>>

NextMode ==
    \/ ModeStart
    \/ ModePunchOK
    \/ ModePunchFail
    \/ ModeSrvStart
    \/ ModeSrvPunchOK
    \/ ModeSrvPunchFail

-----------------------------------------------------------------------------
\* Specification SpecSig: the request handlers of the signaling endpoint,
\* run concurrently by the web server; each get_store and save_store is
\* one step, and a handler keeps its own copy of the store in between

NumReqs == 3

Roles == {"client", "server"}

EmptyStore == [exists |-> FALSE, client |-> Absent, server |-> Absent,
               mapping_version |-> 0, cver |-> 0]

NoReq == [kind |-> "none", role |-> "client", data |-> Absent, pc |-> "new",
          store |-> EmptyStore, result |-> Absent, strict |-> FALSE, expect |-> Absent]

\* payloads published in this specification
SigClientData == formatClientRegistrationData(ClientNet, ConfigMappings)
SigServerData == { formatServerRegistrationData(ServerNet, <<ServerPortMapping(M1, p)>>) : p \in {1, 2} }
SigUpdateList == <<FormatMapping(M1), FormatMapping(M2)>>

SlotOf(store, role) == IF role = "client" THEN store.client ELSE store.server

InFlight(r) == r.pc \notin {"new", "done"}
IsPublish(r) == r.kind \in {"POST", "PUT"}

SigInit ==
    /\ sigFile = EmptyStore
    /\ reqs = [i \in 1..NumReqs |-> NoReq]
    /\ lastCompleted = [role \in Roles |-> Absent]

\* requests are numbered in the order of their arrival
MayArrive(i) == reqs[i].pc = "new" /\ (IF i = 1 THEN TRUE ELSE reqs[i - 1].pc # "new")

\* a POST {role, room, data} arrives
SigPostArrives ==
    \E i \in 1..NumReqs, role \in Roles :
    \E data \in (IF role = "client" THEN {SigClientData} ELSE SigServerData) :
        /\ MayArrive(i)
        /\ reqs' = [j \in 1..NumReqs |->
                      IF j = i THEN [NoReq EXCEPT !.kind = "POST", !.role = role,
                                                  !.data = data, !.pc = "touch_read"]
                      ELSE IF reqs[j].kind = "GET" /\ reqs[j].role = role
                      THEN [reqs[j] EXCEPT !.strict = FALSE]
                      ELSE reqs[j]]
        /\ UNCHANGED <<sigFile, lastCompleted, notSig>>

\* a PUT {room, mappings} arrives
SigPutArrives ==
    \E i \in 1..NumReqs :
        /\ MayArrive(i)
        /\ reqs' = [j \in 1..NumReqs |->
                      IF j = i THEN [NoReq EXCEPT !.kind = "PUT", !.role = "client",
                                                  !.pc = "put_read"]
                      ELSE IF reqs[j].kind = "GET" /\ reqs[j].role = "client"
                      THEN [reqs[j] EXCEPT !.strict = FALSE]
                      ELSE reqs[j]]
        /\ UNCHANGED <<sigFile, lastCompleted, notSig>>

\* a GET ?role=..&room=.. arrives; it must return the payload of the last
\* completed publish for the role when no publish for the role overlaps it
SigGetArrives ==
    \E i \in 1..NumReqs, role \in Roles :
        /\ MayArrive(i)
        /\ reqs' = [reqs EXCEPT ![i] =
              [NoReq EXCEPT !.kind = "GET", !.role = role, !.pc = "get_read",
                            !.expect = lastCompleted[role],
                            !.strict = /\ lastCompleted[role].present
                                       /\ ~\E j \in 1..NumReqs :
                                             /\ InFlight(reqs[j]) /\ IsPublish(reqs[j])
                                             /\ reqs[j].role = role]]
        /\ UNCHANGED <<sigFile, lastCompleted, notSig>>

\* a GET ..&check_updates=true&last_mapping_version=0 arrives
SigCheckArrives ==
    \E i \in 1..NumReqs :
        /\ MayArrive(i)
        /\ reqs' = [reqs EXCEPT ![i] = [NoReq EXCEPT !.kind = "CHECK", !.pc = "check_read"]]
        /\ UNCHANGED <<sigFile, lastCompleted, notSig>>

\* get_participant_data: get_store and the look-up of the participant
SigGetRead ==
    \E i \in 1..NumReqs :
        /\ reqs[i].pc = "get_read"
        /\ IF sigFile.exists /\ SlotOf(sigFile, reqs[i].role).present
           THEN reqs' = [reqs EXCEPT ![i].result = SlotOf(sigFile, reqs[i].role),
                                     ![i].pc = "touch_read"]
           ELSE reqs' = [reqs EXCEPT ![i].result = Absent, ![i].pc = "done"]
        /\ UNCHANGED <<sigFile, lastCompleted, notSig>>

\* the PUT handler: get_store, 404 without a client, else the new client data
SigPutRead ==
    \E i \in 1..NumReqs :
        /\ reqs[i].pc = "put_read"
        /\ IF sigFile.exists /\ sigFile.client.present
           THEN reqs' = [reqs EXCEPT
                            ![i].data = [sigFile.client EXCEPT !.doc.mappings = SigUpdateList],
                            ![i].pc = "touch_read"]
           ELSE reqs' = [reqs EXCEPT ![i].pc = "done"]
        /\ UNCHANGED <<sigFile, lastCompleted, notSig>>

\* check_mapping_updates: get_store only
SigCheckRead ==
    \E i \in 1..NumReqs :
        /\ reqs[i].pc = "check_read"
        /\ reqs' = [reqs EXCEPT ![i].pc = "done"]
        /\ UNCHANGED <<sigFile, lastCompleted, notSig>>

\* touch_room_activity: get_store
SigTouchRead ==
    \E i \in 1..NumReqs :
        /\ reqs[i].pc = "touch_read"
        /\ reqs' = [reqs EXCEPT ![i].store = sigFile, ![i].pc = "touch_write"]
        /\ UNCHANGED <<sigFile, lastCompleted, notSig>>

\* touch_room_activity: create the room if missing, stamp it, save_store
SigTouchWrite ==
    \E i \in 1..NumReqs :
        /\ reqs[i].pc = "touch_write"
        /\ sigFile' = [reqs[i].store EXCEPT !.exists = TRUE]
        /\ reqs' = [reqs EXCEPT ![i].store = [reqs[i].store EXCEPT !.exists = TRUE],
                                ![i].pc = IF reqs[i].kind = "GET" THEN "done" ELSE "save"]
        /\ UNCHANGED <<lastCompleted, notSig>>

\* update_participant_data after touch_room_activity: save_store of its copy
SigSave ==
    \E i \in 1..NumReqs :
        /\ reqs[i].pc = "save"
        /\ sigFile' = update_participant_data(reqs[i].store, reqs[i].role, reqs[i].data, 1)
        /\ reqs' = [reqs EXCEPT ![i].pc = "done"]
        /\ lastCompleted' = [lastCompleted EXCEPT ![reqs[i].role] = reqs[i].data]
        /\ UNCHANGED notSig

NextSig ==
    \/ SigPostArrives
    \/ SigPutArrives
    \/ SigGetArrives
    \/ SigCheckArrives
    \/ SigGetRead
    \/ SigPutRead
    \/ SigCheckRead
    \/ SigTouchRead
    \/ SigTouchWrite
    \/ SigSave

-----------------------------------------------------------------------------
\* Specification SpecUDP: the relay listeners runUDPClient (Client side,
\* upstream is the peer target) and runUDPServerOnPort (Server side,
\* upstream is the local service); the upstream echoes what it receives

MaxSend == 1

Sources == {"A", "B"}
Service == "service"

\* the k-th datagram a source sends
Data(src, k) == <<src, k>>
NoData == <<"", 0>>

Datagram(src, data) == [src |-> src, data |-> data]

UDPInit ==
    /\ cInbox = {}
    /\ cBuf = NoData
    /\ sessions = [key \in {} |-> 0]
    /\ upQ = [src \in Sources |-> <<>>]
    /\ toUp = {}
    /\ cGo = [g \in Sources \X {"write", "read"} |-> 0]
    /\ cOut = {}
    /\ sInbox = {}
    /\ sBuf = NoData
    /\ sGo = [peer \in Sources \cup {Service} |-> 0]
    /\ toSvc = {}
    /\ sOut = {}
    /\ sent = [l \in {"client", "server"} |-> [src \in Sources |-> 0]]

\* ---- runUDPClient ----

\* an application sends a datagram to the Client's local port
AppSend ==
    \E src \in Sources :
        /\ sent["client"][src] < MaxSend
        /\ sent' = [sent EXCEPT !["client"][src] = @ + 1]
        /\ cInbox' = cInbox \cup {Datagram(src, Data(src, sent["client"][src] + 1))}
        /\ UNCHANGED <<cBuf, sessions, upQ, toUp, cGo, cOut,
                       sInbox, sBuf, sGo, toSvc, sOut, notUDP>>

\* UDPSessionManager.GetOrCreateSession: the session of the key, created
\* with the source as its ClientAddr when the key has none
GetOrCreateSession(ss, clientAddr) ==
    IF clientAddr \in DOMAIN ss THEN ss
    ELSE [key \in DOMAIN ss \cup {clientAddr} |->
            IF key = clientAddr THEN [ClientAddr |-> clientAddr] ELSE ss[key]]

\* one round of the listener loop: ReadFromUDP into buf, the session of the
\* source, and a goroutine holding buf[:n] and the session
CliRead ==
    \E m \in cInbox :
        /\ cInbox' = cInbox \ {m}
        /\ cBuf' = m.data
        /\ sessions' = GetOrCreateSession(sessions, m.src)
        /\ cGo' = [cGo EXCEPT ![<<m.src, "write">>] = @ + 1]
        /\ UNCHANGED <<upQ, toUp, cOut, sInbox, sBuf, sGo, toSvc, sOut, sent, notUDP>>

\* the goroutine writes its slice of buf, as buf is now, to the upstream
\* socket of its session
CliGoWrite ==
    \E key \in Sources :
        /\ cGo[<<key, "write">>] > 0
        /\ toUp' = toUp \cup {[sess |-> key, data |-> cBuf]}
        /\ cGo' = [cGo EXCEPT ![<<key, "write">>] = @ - 1, ![<<key, "read">>] = @ + 1]
        /\ UNCHANGED <<cInbox, cBuf, sessions, upQ, cOut,
                       sInbox, sBuf, sGo, toSvc, sOut, sent, notUDP>>

\* the upstream answers a datagram to the socket it came from
UpstreamEcho ==
    \E m \in toUp :
        /\ toUp' = toUp \ {m}
        /\ upQ' = [upQ EXCEPT ![m.sess] = Append(@, m.data)]
        /\ UNCHANGED <<cInbox, cBuf, sessions, cGo, cOut,
                       sInbox, sBuf, sGo, toSvc, sOut, sent, notUDP>>

\* the goroutine reads a response from the upstream socket of its session
\* and writes it to the ClientAddr of the session
CliGoRespond ==
    \E key \in Sources :
        /\ cGo[<<key, "read">>] > 0
        /\ upQ[key] # <<>>
        /\ cOut' = cOut \cup {[to |-> sessions[key].ClientAddr, sess |-> key,
                               data |-> Head(upQ[key])]}
        /\ upQ' = [upQ EXCEPT ![key] = Tail(@)]
        /\ cGo' = [cGo EXCEPT ![<<key, "read">>] = @ - 1]
        /\ UNCHANGED <<cInbox, cBuf, sessions, toUp,
                       sInbox, sBuf, sGo, toSvc, sOut, sent, notUDP>>

\* the 2 s read deadline passes without a response
CliGoTimeout ==
    \E key \in Sources :
        /\ cGo[<<key, "read">>] > 0
        /\ upQ[key] = <<>>
        /\ cGo' = [cGo EXCEPT ![<<key, "read">>] = @ - 1]
        /\ UNCHANGED <<cInbox, cBuf, sessions, upQ, toUp, cOut,
                       sInbox, sBuf, sGo, toSvc, sOut, sent, notUDP>>

\* ---- runUDPServerOnPort ----

\* a peer sends a datagram to the allocated port
PeerSend ==
    \E src \in Sources :
        /\ sent["server"][src] < MaxSend
        /\ sent' = [sent EXCEPT !["server"][src] = @ + 1]
        /\ sInbox' = sInbox \cup {Datagram(src, Data(src, sent["server"][src] + 1))}
        /\ UNCHANGED <<cInbox, cBuf, sessions, upQ, toUp, cGo, cOut,
                       sBuf, sGo, toSvc, sOut, notUDP>>

\* one round of the listener loop: ReadFromUDP into buf and a goroutine
\* holding buf[:n] and the address the datagram came from
SrvRead ==
    \E m \in sInbox :
        /\ sInbox' = sInbox \ {m}
        /\ sBuf' = m.data
        /\ sGo' = [sGo EXCEPT ![m.src] = @ + 1]
        /\ UNCHANGED <<cInbox, cBuf, sessions, upQ, toUp, cGo, cOut,
                       toSvc, sOut, sent, notUDP>>

\* the goroutine writes its slice of buf, as buf is now, from the listener
\* socket to localServiceAddr
SrvGoWrite ==
    \E peer \in Sources \cup {Service} :
        /\ sGo[peer] > 0
        /\ sGo' = [sGo EXCEPT ![peer] = @ - 1]
        /\ toSvc' = toSvc \cup {sBuf}
        /\ sOut' = sOut \cup {[to |-> Service, readFrom |-> peer, data |-> sBuf]}
        /\ UNCHANGED <<cInbox, cBuf, sessions, upQ, toUp, cGo, cOut,
                       sInbox, sBuf, sent, notUDP>>

\* the local service answers a datagram to the socket it came from, the
\* listener socket
ServiceEcho ==
    \E data \in toSvc :
        /\ toSvc' = toSvc \ {data}
        /\ sInbox' = sInbox \cup {Datagram(Service, data)}
        /\ UNCHANGED <<cInbox, cBuf, sessions, upQ, toUp, cGo, cOut,
                       sBuf, sGo, sOut, sent, notUDP>>

NextUDP ==
    \/ AppSend
    \/ CliRead
    \/ CliGoWrite
    \/ UpstreamEcho
    \/ CliGoRespond
    \/ CliGoTimeout
    \/ PeerSend
    \/ SrvRead
    \/ SrvGoWrite
    \/ ServiceEcho

-----------------------------------------------------------------------------
\* Specification SpecPunch: establishP2PConnection on one side. The network
\* decides whether a bind succeeds, whether a datagram written reaches the
\* peer, and what a read returns: a datagram of the peer, a datagram of
\* another sender, or the deadline.

MaxSpray == 2

retryCount == 5

\* portRange of tryPortPrediction
portRange == <<0, 1, -1, 2, -2, 3, -3, 4, -4, 5, -5>>

NoSock == [state |-> "none", rd |-> FALSE, wd |-> FALSE,
           sent |-> 0, delivered |-> FALSE, recv |-> "none"]

NoResult == [returned |-> FALSE, Success |-> FALSE, by |-> "", Conn |-> NoSock]

PunchInit ==
    /\ hpc = "lan"
    /\ \E priv \in BOOLEAN, init \in BOOLEAN, port \in {40000, 65533} :
          hCfg = [hasPrivate |-> priv, IsInitiator |-> init, remotePort |-> port]
    /\ hAttempt = 0 /\ hOffset = 1
    /\ hStep = "begin"
    /\ hSock = NoSock
    /\ hTried = <<>>
    /\ hOpen = 0
    /\ hResult = NoResult

\* tryPortPrediction: the offsets whose target port is out of range are skipped
ValidOffset(i) ==
    LET targetPort == hCfg.remotePort + portRange[i]
    IN  targetPort > 0 /\ targetPort <= 65535

\* index of the next offset tried after index i, 0 when none is left
NextOffset(i) ==
    LET later == { j \in (i + 1)..Len(portRange) : ValidOffset(j) }
    IN  IF later = {} THEN 0 ELSE CHOOSE j \in later : \A k \in later : j <= k

\* MoreAttempts with the loop bound off by one
MoreAttempts_OneTooMany(n) == n < retryCount

\* strategy 3 makes another attempt after the attempt numbered n
MoreAttempts(n) == n + 1 < retryCount

\* a failing strategy that leaves its socket open
StrategyFailed_NoClose ==
    /\ hSock' = hSock
    /\ hOpen' = hOpen
    /\ hStep' = "begin"
    /\ CASE hpc = "lan" -> hpc' = "enhanced" /\ UNCHANGED <<hAttempt, hOffset, hResult>>
         [] hpc = "enhanced" -> hpc' = "direct" /\ UNCHANGED <<hAttempt, hOffset, hResult>>
         [] hpc = "direct" ->
              IF MoreAttempts(hAttempt)
              THEN hpc' = "direct" /\ hAttempt' = hAttempt + 1 /\ UNCHANGED <<hOffset, hResult>>
              ELSE hpc' = "predict" /\ hOffset' = NextOffset(0) /\ UNCHANGED <<hAttempt, hResult>>
         [] hpc = "predict" ->
              IF NextOffset(hOffset) # 0
              THEN hpc' = "predict" /\ hOffset' = NextOffset(hOffset) /\ UNCHANGED <<hAttempt, hResult>>
              ELSE /\ hpc' = "failed"
                   /\ hResult' = [NoResult EXCEPT !.returned = TRUE]
                   /\ UNCHANGED <<hAttempt, hOffset>>

\* the running strategy has failed: its socket is closed and
\* performSynchronizedHolePunching moves on, or returns the failure that
\* establishP2PConnection turns into an error
StrategyFailed ==
    /\ hSock' = [hSock EXCEPT !.state = IF hSock.state = "open" THEN "closed" ELSE hSock.state]
    /\ hOpen' = IF hSock.state = "open" THEN hOpen - 1 ELSE hOpen
    /\ hStep' = "begin"
    /\ CASE hpc = "lan" -> hpc' = "enhanced" /\ UNCHANGED <<hAttempt, hOffset, hResult>>
         [] hpc = "enhanced" -> hpc' = "direct" /\ UNCHANGED <<hAttempt, hOffset, hResult>>
         [] hpc = "direct" ->
              IF MoreAttempts(hAttempt)
              THEN hpc' = "direct" /\ hAttempt' = hAttempt + 1 /\ UNCHANGED <<hOffset, hResult>>
              ELSE hpc' = "predict" /\ hOffset' = NextOffset(0) /\ UNCHANGED <<hAttempt, hResult>>
         [] hpc = "predict" ->
              IF NextOffset(hOffset) # 0
              THEN hpc' = "predict" /\ hOffset' = NextOffset(hOffset) /\ UNCHANGED <<hAttempt, hResult>>
              ELSE /\ hpc' = "failed"
                   /\ hResult' = [NoResult EXCEPT !.returned = TRUE]
                   /\ UNCHANGED <<hAttempt, hOffset>>

\* the running strategy returns its socket: establishP2PConnection returns it
StrategySucceeded(sock) ==
    /\ hSock' = sock
    /\ hOpen' = hOpen
    /\ hResult' = [returned |-> TRUE, Success |-> TRUE, by |-> hpc, Conn |-> sock]
    /\ hpc' = "success"
    /\ hStep' = "begin"
    /\ UNCHANGED <<hAttempt, hOffset>>

\* strategy 1 is left out when a private address is missing
PunchSkipLAN ==
    /\ hpc = "lan" /\ hStep = "begin" /\ ~hCfg.hasPrivate
    /\ hpc' = "enhanced"
    /\ UNCHANGED <<hCfg, hAttempt, hOffset, hStep, hSock, hTried, hOpen, hResult, notPunch>>

\* tryDirectConnection: resolve, ListenUDP, SetDeadline
DirectOpen ==
    /\ hpc \in {"lan", "direct", "predict"} /\ hStep = "begin"
    /\ hpc = "lan" => hCfg.hasPrivate
    /\ hTried' = Append(hTried, hpc)
    /\ \E ok \in BOOLEAN :
          IF ok
          THEN /\ hSock' = [NoSock EXCEPT !.state = "open", !.rd = TRUE, !.wd = TRUE]
               /\ hOpen' = hOpen + 1
               /\ hStep' = "send"
               /\ UNCHANGED <<hpc, hAttempt, hOffset, hResult>>
          ELSE StrategyFailed
    /\ UNCHANGED <<hCfg, notPunch>>

\* tryDirectConnection: WriteToUDP of HOLE_PUNCH_INIT
DirectSend ==
    /\ hpc \in {"lan", "direct", "predict"} /\ hStep = "send"
    /\ \E wrote \in BOOLEAN, delivered \in BOOLEAN :
          IF wrote
          THEN /\ hSock' = [hSock EXCEPT !.sent = @ + 1, !.delivered = delivered]
               /\ hStep' = "read"
               /\ UNCHANGED <<hpc, hAttempt, hOffset, hOpen, hResult>>
          ELSE StrategyFailed
    /\ UNCHANGED <<hCfg, hTried, notPunch>>

\* tryDirectConnection: SetReadDeadline, ReadFromUDP; any datagram is a
\* response, and SetDeadline(time.Time{}) clears both deadlines
DirectRead ==
    /\ hpc \in {"lan", "direct", "predict"} /\ hStep = "read"
    /\ \E got \in {"peer", "other", "timeout"} :
          IF got # "timeout"
          THEN StrategySucceeded([hSock EXCEPT !.recv = got, !.rd = FALSE, !.wd = FALSE])
          ELSE StrategyFailed
    /\ UNCHANGED <<hCfg, hTried, notPunch>>

\* tryEnhancedSimultaneousConnect: createReusePortUDPConn (on the STUN port,
\* else on any port); the receiver sets the read deadline
EnhancedOpen ==
    /\ hpc = "enhanced" /\ hStep = "begin"
    /\ hTried' = Append(hTried, hpc)
    /\ \E ok \in BOOLEAN :
          IF ok
          THEN /\ hSock' = [NoSock EXCEPT !.state = "open", !.rd = TRUE]
               /\ hOpen' = hOpen + 1
               /\ hStep' = "spray"
               /\ UNCHANGED <<hpc, hAttempt, hOffset, hResult>>
          ELSE StrategyFailed
    /\ UNCHANGED <<hCfg, notPunch>>

\* the sender goroutine: one token per tick
EnhancedSend ==
    /\ hpc = "enhanced" /\ hStep = "spray"
    /\ hSock.sent < MaxSpray
    /\ \E delivered \in BOOLEAN :
          hSock' = [hSock EXCEPT !.sent = @ + 1, !.delivered = @ \/ delivered]
    /\ UNCHANGED <<hpc, hCfg, hAttempt, hOffset, hStep, hTried, hOpen, hResult, notPunch>>

\* the receiver goroutine reads a datagram: the result is the socket as it is
EnhancedReceive ==
    /\ hpc = "enhanced" /\ hStep = "spray"
    /\ \E got \in {"peer", "other"} :
          StrategySucceeded([hSock EXCEPT !.recv = got])
    /\ UNCHANGED <<hCfg, hTried, notPunch>>

\* the timeout (or the context) ends the strategy without a result
EnhancedTimeout ==
    /\ hpc = "enhanced" /\ hStep = "spray"
    /\ StrategyFailed
    /\ UNCHANGED <<hCfg, hTried, notPunch>>

NextPunch ==
    \/ PunchSkipLAN
    \/ DirectOpen
    \/ DirectSend
    \/ DirectRead
    \/ EnhancedOpen
    \/ EnhancedSend
    \/ EnhancedReceive
    \/ EnhancedTimeout

-----------------------------------------------------------------------------
\* Specification SpecSess: the session table of one runUDPClient.
\* GetOrCreateSession and CleanupExpiredSessions exclude each other by
\* sm.mutex; the sweep is modelled entry by entry while it holds the mutex.

MaxClock == 6
MaxDials == 3

\* the timeout runUDPClient gives its session manager, in minutes
sessionTimeout == 5

NoSession == [ClientAddr |-> "", ServerConn |-> 0, LastActivity |-> 0]

\* no call yet, or a call that returned an error
NoCall == [key |-> "", ok |-> FALSE, ServerConn |-> 0]

SessInit ==
    /\ tNow = 0
    /\ tTable = <<>>
    /\ tSocks = <<>>
    /\ swpc = "idle" /\ swNow = 0 /\ swTodo = {} /\ swKey = "" /\ swBefore = <<>>
    /\ tRet = NoCall
    /\ tTasks = [ctx |-> "live", loop |-> "running", sweeper |-> "running"]
    /\ tAtCancel = {}

SessTick ==
    /\ tTasks.ctx # "off"
    /\ tNow < MaxClock
    /\ tNow' = tNow + 1
    /\ UNCHANGED <<tTable, tSocks, swpc, swNow, swTodo, swKey, swBefore, tRet, tTasks, tAtCancel, notSess>>

\* SessionExists that never finds the session
SessionExists_Never(table, key) == FALSE

\* sm.sessions[key] exists
SessionExists(table, key) == key \in DOMAIN table

\* sm.sessions[key] = session
PutSession(table, key, session) ==
    [k \in DOMAIN table \cup {key} |-> IF k = key THEN session ELSE table[k]]

\* the listener loop reads a datagram of source src and calls
\* GetOrCreateSession: the session of the key with LastActivity refreshed, or
\* a new session around a freshly dialed socket; a failed dial returns an error
SessGetOrCreate ==
    /\ tTasks.loop = "running"
    /\ swpc = "idle"
    /\ \E src \in Sources :
          IF SessionExists(tTable, src)
          THEN /\ tTable' = [tTable EXCEPT ![src].LastActivity = tNow]
               /\ tRet' = [key |-> src, ok |-> TRUE, ServerConn |-> tTable[src].ServerConn]
               /\ UNCHANGED tSocks
          ELSE /\ Len(tSocks) < MaxDials
               /\ \E dialed \in BOOLEAN :
                     IF dialed
                     THEN /\ tSocks' = Append(tSocks, "open")
                          /\ tTable' = PutSession(tTable, src,
                                 [ClientAddr |-> src, ServerConn |-> Len(tSocks) + 1,
                                  LastActivity |-> tNow])
                          /\ tRet' = [key |-> src, ok |-> TRUE, ServerConn |-> Len(tSocks) + 1]
                     ELSE /\ tRet' = [NoCall EXCEPT !.key = src]
                          /\ UNCHANGED <<tTable, tSocks>>
    /\ UNCHANGED <<tNow, swpc, swNow, swTodo, swKey, swBefore, tTasks, tAtCancel, notSess>>

\* Expired that also counts an idle time equal to the timeout
Expired_AtTimeout(session, t) == t - session.LastActivity >= sessionTimeout

\* now.Sub(session.LastActivity) > sm.timeout
Expired(session, t) == t - session.LastActivity > sessionTimeout

\* the sweeper's ticker fires: CleanupExpiredSessions takes sm.mutex and reads the clock
SweepStart ==
    /\ tTasks.sweeper = "running"
    /\ swpc = "idle"
    /\ swpc' = "sweeping"
    /\ swNow' = tNow
    /\ swTodo' = DOMAIN tTable
    /\ swBefore' = tTable
    /\ UNCHANGED <<tNow, tTable, tSocks, swKey, tRet, tTasks, tAtCancel, notSess>>

\* one iteration of the range loop: an expired session has its ServerConn
\* closed and then its entry deleted
SweepVisit ==
    /\ swpc = "sweeping"
    /\ IF swKey = ""
       THEN \E key \in swTodo :
               IF Expired(tTable[key], swNow)
               THEN /\ tSocks' = [tSocks EXCEPT ![tTable[key].ServerConn] = "closed"]
                    /\ swKey' = key
                    /\ UNCHANGED <<tTable, swTodo>>
               ELSE /\ swTodo' = swTodo \ {key}
                    /\ UNCHANGED <<tTable, tSocks, swKey>>
       ELSE /\ tTable' = [k \in DOMAIN tTable \ {swKey} |-> tTable[k]]
            /\ swTodo' = swTodo \ {swKey}
            /\ swKey' = ""
            /\ UNCHANGED tSocks
    /\ UNCHANGED <<tNow, swpc, swNow, swBefore, tRet, tTasks, tAtCancel, notSess>>

\* the range loop is over: the mutex is released
SweepEnd ==
    /\ swpc = "sweeping" /\ swTodo = {} /\ swKey = ""
    /\ swpc' = "idle"
    /\ swNow' = 0
    /\ swBefore' = <<>>
    /\ UNCHANGED <<tNow, tTable, tSocks, swTodo, swKey, tRet, tTasks, tAtCancel, notSess>>

\* cancel() of the root context
SessCancel ==
    /\ tTasks.ctx = "live"
    /\ tTasks' = [tTasks EXCEPT !.ctx = "cancelled"]
    /\ tAtCancel' = { tTable[k].ServerConn : k \in DOMAIN tTable }
    /\ UNCHANGED <<tNow, tTable, tSocks, swpc, swNow, swTodo, swKey, swBefore, tRet, notSess>>

\* the sweeper goroutine takes the ctx.Done() case and returns
SweeperExit ==
    /\ tTasks.ctx = "cancelled" /\ tTasks.sweeper = "running" /\ swpc = "idle"
    /\ tTasks' = [tTasks EXCEPT !.sweeper = "exited"]
    /\ UNCHANGED <<tNow, tTable, tSocks, swpc, swNow, swTodo, swKey, swBefore, tRet, tAtCancel, notSess>>

\* the listener loop takes the ctx.Done() case and returns; the deferred
\* conn.Close() closes the listener socket
LoopReturn ==
    /\ tTasks.ctx = "cancelled" /\ tTasks.loop = "running"
    /\ tTasks' = [tTasks EXCEPT !.loop = "returned"]
    /\ UNCHANGED <<tNow, tTable, tSocks, swpc, swNow, swTodo, swKey, swBefore, tRet, tAtCancel, notSess>>

NextSess ==
    \/ SessTick
    \/ SessGetOrCreate
    \/ SweepStart
    \/ SweepVisit
    \/ SweepEnd
    \/ SessCancel
    \/ SweeperExit
    \/ LoopReturn

-----------------------------------------------------------------------------
\* SpecTCP: runTCPClient / runTCPServerOnPort and tcpProxy
\*
\* Both listeners have the same accept loop and start the same two tcpProxy
\* goroutines per connection. c is the accepted connection, peer the dialed
\* one. The stream of a direction is the bytes its source endpoint writes;
\* io.CopyBuffer moves them to the destination in order. The model follows
\* one connection at a time, a further one when the dial of the earlier ones
\* has failed: the goroutines of different connections share nothing but ctx.

MaxConns == 2
MaxBytes == 1

Dirs == {"c2p", "p2c"}
Opp(d) == IF d = "c2p" THEN "p2c" ELSE "c2p"

Stream(n) == [i \in 1..n |-> i]

\* the goroutine started for an accepted connection, before its Dial
NewPair(late) ==
    [state |-> "dialing", c |-> "open", peer |-> "none", afterCancel |-> late,
     px |-> [d \in Dirs |-> "off"], cause |-> [d \in Dirs |-> "none"],
     todo |-> [d \in Dirs |-> <<>>],
     eof |-> [d \in Dirs |-> FALSE],
     got |-> [d \in Dirs |-> <<>>]]

\* the Dial failed and the goroutine returns without closing c
DialFailed_LeavesOpen(pair) == [pair EXCEPT !.state = "finished"]

\* the Dial failed: the goroutine returns and the deferred c.Close() runs
DialFailed(pair) == [pair EXCEPT !.state = "finished", !.c = "closed"]

TCPInit ==
    /\ lnpc = "check" /\ tcpCtx = "live" /\ backlog = 0 /\ pairs = <<>>

\* a client connects to the listening port
TCPConnect ==
    /\ lnpc \in {"check", "accept"}
    /\ backlog = 0 /\ Len(pairs) < MaxConns
    /\ \A i \in 1..Len(pairs) : pairs[i].state = "finished" /\ pairs[i].peer = "none"
    /\ backlog' = backlog + 1
    /\ UNCHANGED <<lnpc, tcpCtx, pairs, notTCP>>

\* top of the accept loop: select on ctx.Done() with a default case
TCPLoopCheck ==
    /\ lnpc = "check"
    /\ lnpc' = IF tcpCtx = "cancelled" THEN "returned" ELSE "accept"
    /\ UNCHANGED <<tcpCtx, backlog, pairs, notTCP>>

\* ln.Accept() returns: an error is logged and the loop continues; a
\* connection gets its goroutine
TCPAccept ==
    /\ lnpc = "accept"
    /\ lnpc' = "check"
    /\ \/ UNCHANGED <<backlog, pairs>>
       \/ /\ backlog > 0
          /\ backlog' = backlog - 1
          /\ pairs' = Append(pairs, NewPair(tcpCtx = "cancelled"))
    /\ UNCHANGED <<tcpCtx, notTCP>>

\* net.Dial of the other endpoint: on failure the deferred c.Close() runs,
\* on success both tcpProxy goroutines start; the endpoints have their
\* streams to write
TCPDial(i) ==
    /\ pairs[i].state = "dialing"
    /\ \/ pairs' = [pairs EXCEPT ![i] = DialFailed(@)]
       \/ \E n1, n2 \in 0..MaxBytes :
             pairs' = [pairs EXCEPT ![i] =
                 [@ EXCEPT !.state = "copying", !.peer = "open",
                           !.px = [d \in Dirs |-> "copying"],
                           !.todo = [d \in Dirs |-> IF d = "c2p" THEN Stream(n1)
                                                    ELSE Stream(n2)]]]
    /\ UNCHANGED <<lnpc, tcpCtx, backlog, notTCP>>

\* io.CopyBuffer(dst, src, buf) moves the next byte of direction d
TCPCopy(i, d) ==
    /\ pairs[i].px[d] = "copying"
    /\ pairs[i].c = "open" /\ pairs[i].peer = "open"
    /\ pairs[i].todo[d] # <<>>
    /\ pairs' = [pairs EXCEPT ![i].todo[d] = Tail(@),
                              ![i].got[d] = Append(@, Head(pairs[i].todo[d]))]
    /\ UNCHANGED <<lnpc, tcpCtx, backlog, notTCP>>

\* the source endpoint of direction d has written its stream and closes its
\* sending direction
TCPShutdownWrite(i, d) ==
    /\ pairs[i].state = "copying"
    /\ pairs[i].c = "open" /\ pairs[i].peer = "open"
    /\ pairs[i].todo[d] = <<>> /\ ~pairs[i].eof[d]
    /\ pairs' = [pairs EXCEPT ![i].eof[d] = TRUE]
    /\ UNCHANGED <<lnpc, tcpCtx, backlog, notTCP>>

\* tcpProxy returns without closing dst
ProxyReturn_SrcOnly(pair, d, why) ==
    [pair EXCEPT !.px[d] = "returned", !.cause[d] = why,
                 !.c = IF d = "c2p" THEN "closed" ELSE @,
                 !.peer = IF d = "p2c" THEN "closed" ELSE @]

\* tcpProxy returns: the deferred dst.Close() and src.Close() run
ProxyReturn(pair, d, why) ==
    [pair EXCEPT !.px[d] = "returned", !.cause[d] = why,
                 !.c = "closed", !.peer = "closed"]

\* io.CopyBuffer of direction d returns and tcpProxy takes the done case:
\* nil at the end of the source's stream, an error of the connection, or
\* the error of a connection that is closed
TCPCopyDone(i, d) ==
    /\ pairs[i].px[d] = "copying"
    /\ \E why \in {"eof", "error", "closed"} :
          /\ why = "eof" => /\ pairs[i].eof[d] /\ pairs[i].todo[d] = <<>>
                            /\ pairs[i].c = "open" /\ pairs[i].peer = "open"
          /\ why = "error" => pairs[i].c = "open" /\ pairs[i].peer = "open"
          /\ why = "closed" => pairs[i].c = "closed" \/ pairs[i].peer = "closed"
          /\ pairs' = [pairs EXCEPT ![i] = ProxyReturn(@, d, why)]
    /\ UNCHANGED <<lnpc, tcpCtx, backlog, notTCP>>

\* tcpProxy of direction d takes the ctx.Done() case
TCPProxyCancel(i, d) ==
    /\ tcpCtx = "cancelled"
    /\ pairs[i].px[d] = "copying"
    /\ pairs' = [pairs EXCEPT ![i] = ProxyReturn(@, d, "cancel")]
    /\ UNCHANGED <<lnpc, tcpCtx, backlog, notTCP>>

\* wg.Wait() returns and the connection's goroutine ends: deferred c.Close()
TCPPairDone(i) ==
    /\ pairs[i].state = "copying"
    /\ \A d \in Dirs : pairs[i].px[d] = "returned"
    /\ pairs' = [pairs EXCEPT ![i].state = "finished", ![i].c = "closed"]
    /\ UNCHANGED <<lnpc, tcpCtx, backlog, notTCP>>

\* cancel() of the root context
TCPCancel ==
    /\ tcpCtx = "live"
    /\ tcpCtx' = "cancelled"
    /\ UNCHANGED <<lnpc, backlog, pairs, notTCP>>

NextTCP ==
    \/ TCPConnect
    \/ TCPLoopCheck
    \/ TCPAccept
    \/ TCPCancel
    \/ \E i \in 1..Len(pairs) :
          \/ TCPDial(i)
          \/ TCPPairDone(i)
          \/ \E d \in Dirs :
                \/ TCPCopy(i, d)
                \/ TCPShutdownWrite(i, d)
                \/ TCPCopyDone(i, d)
                \/ TCPProxyCancel(i, d)

-----------------------------------------------------------------------------
\* SpecProbe: discoverNetworkInfo and discoverNATType
\*
\* Every binding dials a new UDP socket, to which the kernel assigns a free
\* ephemeral port; the socket is closed when the binding is over, so a later
\* socket may get the same port. The STUN server reflects the endpoint the
\* NAT maps the socket to.

MaxEphemeral == 2

EphemeralPorts == 1..MaxEphemeral

HostIP == <<192, 168, 1, 10>>
NatIP == <<198, 51, 100, 7>>

NATKinds == {"none", "cone", "symmetric"}
STUNServers == <<"primary", "secondary">>

\* the public endpoint of a local socket for a destination: the socket's
\* own without a NAT, one per local endpoint behind a cone NAT
\* (endpoint-independent mapping), one per local endpoint and destination
\* behind a symmetric NAT
Reflect(nat, port, server) ==
    CASE nat = "none" -> Addr(HostIP, port)
      [] nat = "cone" -> Addr(NatIP, 100 + port)
      [] OTHER -> Addr(NatIP, 200 + 10 * (CHOOSE i \in 1..2 : STUNServers[i] = server) + port)

extractPort(a) == a.port

NoAddr == Addr(NoIP, 0)

\* result := &STUNResult{NATType: NATTypeUnknown, Mappings: make([]string, 0)}
NoSTUNResult ==
    [PublicAddr |-> NoAddr, LocalAddr |-> NoAddr, NATType |-> "Unknown",
     Mappings |-> <<>>, CanHolePunch |-> FALSE]

NoInfo == [PublicAddr |-> NoAddr, PrivateAddr |-> NoAddr, STUNResult |-> NoSTUNResult,
           nil |-> TRUE, err |-> FALSE]

NoHist == [b1 |-> 0, b2 |-> 0, private |-> FALSE, nat |-> FALSE, basic |-> FALSE]

\* the comparison of test 2 with every pair of mappings taken as different
MappingsDiffer_Always(m1, m2) == TRUE

\* mapping1 != mapping2
MappingsDiffer(m1, m2) == m1 # m2

\* the fallback STUNResult with hole punching ruled out
BasicSTUNResult_Pessimistic(publicAddr, privateAddr) ==
    [PublicAddr |-> publicAddr, LocalAddr |-> privateAddr, NATType |-> "Unknown",
     Mappings |-> <<>>, CanHolePunch |-> FALSE]

\* the STUNResult of the fallback to basic STUN discovery
BasicSTUNResult(publicAddr, privateAddr) ==
    [PublicAddr |-> publicAddr, LocalAddr |-> privateAddr, NATType |-> "Unknown",
     Mappings |-> <<>>, CanHolePunch |-> TRUE]

ProbeInit ==
    /\ ppc = "private"
    /\ pNat \in NATKinds
    /\ pRes = NoSTUNResult
    /\ pInfo = NoInfo
    /\ pHist = NoHist

\* discoverNetworkInfo: getPrivateIP, whose failure is only logged
ProbePrivate ==
    /\ ppc = "private"
    /\ \E ok \in BOOLEAN :
          /\ pInfo' = [pInfo EXCEPT !.nil = FALSE,
                                    !.PrivateAddr = IF ok THEN Addr(HostIP, 0) ELSE NoAddr]
          /\ pHist' = [pHist EXCEPT !.private = ~ok]
    /\ ppc' = "local"
    /\ UNCHANGED <<pNat, pRes, notProbe>>

\* discoverNATType step 1: a socket dialed to the primary server gives
\* LocalAddr and is closed
NatLocal ==
    /\ ppc = "local"
    /\ \/ /\ ppc' = "basic"
          /\ pHist' = [pHist EXCEPT !.nat = TRUE]
          /\ UNCHANGED pRes
       \/ \E port \in EphemeralPorts :
             /\ pRes' = [pRes EXCEPT !.LocalAddr = Addr(HostIP, port)]
             /\ ppc' = "test1"
             /\ UNCHANGED pHist
    /\ UNCHANGED <<pNat, pInfo, notProbe>>

\* step 2: performSTUNDiscovery(primarySTUN) on a socket of its own; equal
\* local and public IP mean no NAT
NatTest1 ==
    /\ ppc = "test1"
    /\ \/ /\ ppc' = "basic"
          /\ pHist' = [pHist EXCEPT !.nat = TRUE]
          /\ UNCHANGED pRes
       \/ \E port \in EphemeralPorts :
             LET mapping1 == Reflect(pNat, port, "primary")
                 noNAT == extractIP(pRes.LocalAddr) = extractIP(mapping1)
             IN  /\ pRes' = [pRes EXCEPT !.PublicAddr = mapping1,
                                         !.Mappings = Append(@, mapping1),
                                         !.NATType = IF noNAT THEN "None" ELSE @,
                                         !.CanHolePunch = IF noNAT THEN TRUE ELSE @]
                 /\ pHist' = [pHist EXCEPT !.b1 = port]
                 /\ ppc' = IF noNAT THEN "classified" ELSE "test2"
    /\ UNCHANGED <<pNat, pInfo, notProbe>>

\* step 3: performSTUNDiscoveryFromSameLocalPort(primarySTUN, LocalAddr).
\* net.DialUDP returns an error for a nil remote address, so the binding is
\* made on the socket of the generic net.Dial, with a port the kernel
\* assigns; a failure is logged and detection continues
NatTest2 ==
    /\ ppc = "test2"
    /\ \/ /\ ppc' = "test3"
          /\ UNCHANGED <<pRes, pHist>>
       \/ \E port \in EphemeralPorts :
             LET mapping2 == Reflect(pNat, port, "primary")
                 symmetric == MappingsDiffer(pRes.Mappings[1], mapping2)
             IN  /\ pRes' = [pRes EXCEPT !.Mappings = Append(@, mapping2),
                                         !.NATType = IF symmetric THEN "Symmetric" ELSE @,
                                         !.CanHolePunch = IF symmetric THEN FALSE ELSE @]
                 /\ pHist' = [pHist EXCEPT !.b2 = port]
                 /\ ppc' = IF symmetric THEN "classified" ELSE "test3"
    /\ UNCHANGED <<pNat, pInfo, notProbe>>

\* step 4: performSTUNDiscovery(secondarySTUN), and the default
\* classification
NatTest3 ==
    /\ ppc = "test3"
    /\ \/ pRes' = [pRes EXCEPT !.NATType = "RestrictedCone", !.CanHolePunch = TRUE]
       \/ \E port \in EphemeralPorts :
             LET mapping3 == Reflect(pNat, port, "secondary")
                 same == extractPort(pRes.Mappings[1]) = extractPort(mapping3)
             IN  pRes' = [pRes EXCEPT !.Mappings = Append(@, mapping3),
                                      !.NATType = IF same THEN "FullCone" ELSE "RestrictedCone",
                                      !.CanHolePunch = TRUE]
    /\ ppc' = "classified"
    /\ UNCHANGED <<pNat, pInfo, pHist, notProbe>>

\* discoverNetworkInfo takes over the result of discoverNATType
ProbeAdopt ==
    /\ ppc = "classified"
    /\ pInfo' = [pInfo EXCEPT !.PublicAddr = pRes.PublicAddr, !.STUNResult = pRes]
    /\ ppc' = "done"
    /\ UNCHANGED <<pNat, pRes, pHist, notProbe>>

\* discoverNATType returned an error: getPublicIP, with the cache empty at
\* startup, makes a basic binding; without it the probe returns the error
\* and the caller ends the process with log.Fatalf
ProbeBasic ==
    /\ ppc = "basic"
    /\ \/ /\ pInfo' = [NoInfo EXCEPT !.err = TRUE]
          /\ pHist' = [pHist EXCEPT !.basic = TRUE]
          /\ ppc' = "fatal"
       \/ \E port \in EphemeralPorts :
             LET publicAddr == Reflect(pNat, port, "primary")
             IN  /\ pInfo' = [pInfo EXCEPT !.PublicAddr = publicAddr,
                                 !.STUNResult = BasicSTUNResult(publicAddr, pInfo.PrivateAddr)]
                 /\ ppc' = "done"
                 /\ UNCHANGED pHist
    /\ UNCHANGED <<pNat, pRes, notProbe>>

NextProbe ==
    \/ ProbePrivate
    \/ NatLocal
    \/ NatTest1
    \/ NatTest2
    \/ NatTest3
    \/ ProbeAdopt
    \/ ProbeBasic

-----------------------------------------------------------------------------
\* SpecLAN: detectLANConnection on the NetworkInfos of the two sides

\* private addresses: inside and outside the three private ranges, at their
\* edges, in two /24 of each /16; and no address
LANPrivateIPs ==
    { <<a, b, c, 1>> : a \in {10, 172, 192, 203}, b \in {0, 16, 31, 32, 168}, c \in {0, 1} }
        \cup {NoIP}

LANPublicIPs == {NoIP, <<198, 51, 100, 7>>, <<203, 0, 113, 5>>}

LANInit ==
    /\ lanIn \in [clientInfo : {NetworkInfo(Addr(pub, 40000), Addr(priv, 0), NilSTUN) :
                                    pub \in LANPublicIPs, priv \in LANPrivateIPs},
                  serverInfo : {NetworkInfo(Addr(pub, 50000), Addr(priv, 0), NilSTUN) :
                                    pub \in LANPublicIPs, priv \in LANPrivateIPs}]
    /\ lanOut = [returned |-> FALSE, lan |-> FALSE]

LanDetect ==
    /\ ~lanOut.returned
    /\ lanOut' = [returned |-> TRUE,
                  lan |-> detectLANConnection(lanIn.clientInfo, lanIn.serverInfo)]
    /\ UNCHANGED <<lanIn, notLAN>>

NextLAN == LanDetect

-----------------------------------------------------------------------------
\* SpecFetch: SignalingClient.WaitForPeerData
\*
\* Durations are in microseconds; a request takes no time, time passes in
\* the waits. The call is the Client's, with a timeout of 15 s.

\* the polls one call is followed for
MaxPolls == 7

fetchTimeout == 15000000
initialBackoff == 500000
maxBackoff == 5000000
quickWait == 200000

\* the bodies a response can carry
Bodies == {"", "registration"}

NoWait == [d |-> 0, attempt |-> 0, kind |-> "none"]
NoReturn == [returned |-> FALSE, payload |-> "", err |-> "none"]

Return(payload, err) == [returned |-> TRUE, payload |-> payload, err |-> err]

\* time.Duration(float64(backoff) * 1.5)
GrowOnError(b) == (b * 3) \div 2

\* time.Duration(float64(backoff) * 1.2)
GrowOnEmpty(b) == (b * 6) \div 5

\* a body of any length taken for data
HasData_Any(body) == TRUE

\* len(body) > 0
HasData(body) == body # ""

FetchInit ==
    /\ fpc = "top" /\ fNow = 0 /\ fBackoff = initialBackoff /\ fAttempt = 0
    /\ fCtx = "live" /\ fWait = NoWait /\ fRet = NoReturn

\* the loop condition and the select on ctx.Done() at the top of the loop
FetchTop ==
    /\ fpc = "top"
    /\ IF ~(fNow < fetchTimeout)
       THEN /\ fRet' = Return("", "timeout")
            /\ fpc' = "returned"
            /\ UNCHANGED fAttempt
       ELSE IF fCtx = "cancelled"
       THEN /\ fRet' = Return("", "ctx")
            /\ fpc' = "returned"
            /\ UNCHANGED fAttempt
       ELSE /\ fAttempt < MaxPolls
            /\ fAttempt' = fAttempt + 1
            /\ fpc' = "get"
            /\ UNCHANGED fRet
    /\ UNCHANGED <<fNow, fBackoff, fCtx, fWait, notFetch>>

\* c.client.Get fails: time.Sleep(backoff), then backoff grows
FetchError ==
    /\ fpc = "get"
    /\ fWait' = [d |-> fBackoff, attempt |-> fAttempt, kind |-> "error"]
    /\ fNow' = fNow + fBackoff
    /\ fBackoff' = IF fBackoff < maxBackoff THEN GrowOnError(fBackoff) ELSE fBackoff
    /\ fpc' = "top"
    /\ UNCHANGED <<fAttempt, fCtx, fRet, notFetch>>

\* status 200: the body is read; a read error sleeps backoff, a body with
\* data is returned, an empty one goes on to the wait
FetchOK ==
    /\ fpc = "get"
    /\ \/ /\ fWait' = [d |-> fBackoff, attempt |-> fAttempt, kind |-> "read"]
          /\ fNow' = fNow + fBackoff
          /\ fpc' = "top"
          /\ UNCHANGED fRet
       \/ \E body \in Bodies :
             IF HasData(body)
             THEN /\ fRet' = Return(body, "none")
                  /\ fpc' = "returned"
                  /\ UNCHANGED <<fWait, fNow>>
             ELSE /\ fWait' = [d |-> IF fAttempt <= 3 THEN quickWait ELSE fBackoff,
                               attempt |-> fAttempt, kind |-> "empty"]
                  /\ fpc' = "wait"
                  /\ UNCHANGED <<fRet, fNow>>
    /\ UNCHANGED <<fBackoff, fAttempt, fCtx, notFetch>>

\* another status than 200: the body is closed, then the wait
FetchNoData ==
    /\ fpc = "get"
    /\ fWait' = [d |-> IF fAttempt <= 3 THEN quickWait ELSE fBackoff,
                 attempt |-> fAttempt, kind |-> "status"]
    /\ fpc' = "wait"
    /\ UNCHANGED <<fNow, fBackoff, fAttempt, fCtx, fRet, notFetch>>

\* time.After(waitTime) fires; backoff grows
FetchWaited ==
    /\ fpc = "wait"
    /\ fNow' = fNow + fWait.d
    /\ fBackoff' = IF fBackoff < maxBackoff THEN GrowOnEmpty(fBackoff) ELSE fBackoff
    /\ fpc' = "top"
    /\ UNCHANGED <<fAttempt, fCtx, fWait, fRet, notFetch>>

\* ctx.Done() ends the wait
FetchWaitCancelled ==
    /\ fpc = "wait" /\ fCtx = "cancelled"
    /\ fRet' = Return("", "ctx")
    /\ fpc' = "returned"
    /\ UNCHANGED <<fNow, fBackoff, fAttempt, fCtx, fWait, notFetch>>

\* the caller's context is cancelled
FetchCancel ==
    /\ fCtx = "live" /\ fpc # "returned"
    /\ fCtx' = "cancelled"
    /\ UNCHANGED <<fpc, fNow, fBackoff, fAttempt, fWait, fRet, notFetch>>

NextFetch ==
    \/ FetchTop
    \/ FetchError
    \/ FetchOK
    \/ FetchNoData
    \/ FetchWaited
    \/ FetchWaitCancelled
    \/ FetchCancel

-----------------------------------------------------------------------------
\* SpecCodec: the string form of a port mapping, character by character
\*
\* A text is a sequence of one-character strings.

DigitChars == <<"0", "1", "2", "3", "4", "5", "6", "7", "8", "9">>

IsDigit(c) == \E d \in 1..10 : DigitChars[d] = c

DigitValue(c) == (CHOOSE d \in 1..10 : DigitChars[d] = c) - 1

RECURSIVE Itoa(_)

\* a formatter that writes the last digit only
Itoa_LastDigit(n) == <<DigitChars[(n % 10) + 1]>>

\* the verb %d of fmt.Sprintf
Itoa(n) ==
    IF n < 0 THEN <<"-">> \o Itoa(0 - n)
    ELSE IF n < 10 THEN <<DigitChars[n + 1]>>
    ELSE Itoa(n \div 10) \o <<DigitChars[(n % 10) + 1]>>

\* fmt.Sprintf("%s:%d:%d", mapping.Protocol, mapping.LocalPort, mapping.RemotePort)
Sprintf(m) == m.Protocol \o <<":">> \o Itoa(m.LocalPort) \o <<":">> \o Itoa(m.RemotePort)

RECURSIVE Split(_, _)
\* strings.Split(s, sep) for a separator of one character
Split(s, sep) ==
    IF \A i \in 1..Len(s) : s[i] # sep THEN <<s>>
    ELSE LET k == CHOOSE i \in 1..Len(s) : s[i] = sep /\ \A j \in 1..(i - 1) : s[j] # sep
         IN  <<SubSeq(s, 1, k - 1)>> \o Split(SubSeq(s, k + 1, Len(s)), sep)

\* strings.ToLower on the letters used here
LowerOf(c) ==
    CASE c = "T" -> "t" [] c = "C" -> "c" [] c = "P" -> "p"
      [] c = "U" -> "u" [] c = "D" -> "d" [] OTHER -> c

ToLowerText(s) == [i \in 1..Len(s) |-> LowerOf(s[i])]

RECURSIVE DecimalValue(_)
DecimalValue(s) ==
    IF s = <<>> THEN 0
    ELSE DecimalValue(SubSeq(s, 1, Len(s) - 1)) * 10 + DigitValue(s[Len(s)])

\* strconv.Atoi: an optional sign, then one decimal digit or more
Atoi(s) ==
    LET signed == s # <<>> /\ s[1] \in {"+", "-"}
        digits == IF signed THEN Tail(s) ELSE s
    IN  IF digits # <<>> /\ \A i \in 1..Len(digits) : IsDigit(digits[i])
        THEN [ok |-> TRUE,
              n |-> IF signed /\ s[1] = "-" THEN 0 - DecimalValue(digits) ELSE DecimalValue(digits)]
        ELSE [ok |-> FALSE, n |-> 0]

tcpText == <<"t", "c", "p">>
udpText == <<"u", "d", "p">>

NoMapping == PortMapping(<<>>, 0, 0)
ParseError == [ok |-> FALSE, m |-> NoMapping]
Parsed(m) == [ok |-> TRUE, m |-> m]
NoParse == [config |-> ParseError, types |-> ParseError]

\* PortMapping.parseFromString of the configuration: no check of the range
parseFromStringText(s) ==
    LET parts == Split(s, ":")
    IN  IF Len(parts) # 3 THEN ParseError
        ELSE LET proto == ToLowerText(parts[1])
                 local == Atoi(parts[2])
                 remote == Atoi(parts[3])
             IN  IF proto # tcpText /\ proto # udpText THEN ParseError
                 ELSE IF ~local.ok \/ ~remote.ok THEN ParseError
                 ELSE Parsed(PortMapping(proto, local.n, remote.n))

\* types.ParsePortMapping: ports outside 1..65535 are refused
ParsePortMapping(s) ==
    LET parts == Split(s, ":")
    IN  IF Len(parts) # 3 THEN ParseError
        ELSE LET protocol == ToLowerText(parts[1])
                 localPort == Atoi(parts[2])
                 remotePort == Atoi(parts[3])
             IN  IF protocol # tcpText /\ protocol # udpText THEN ParseError
                 ELSE IF ~localPort.ok \/ localPort.n <= 0 \/ localPort.n > 65535 THEN ParseError
                 ELSE IF ~remotePort.ok \/ remotePort.n <= 0 \/ remotePort.n > 65535 THEN ParseError
                 ELSE Parsed(PortMapping(protocol, localPort.n, remotePort.n))

\* the mappings tried: the two protocols and others, ports inside 1..65535,
\* at its edges and outside
CodecProtocols == {tcpText, udpText, <<"T", "C", "P">>, <<"s", "c", "t", "p">>, <<>>}
CodecPorts == {0 - 1, 0, 1, 9, 10, 443, 5000, 65535, 65536}

\* strings that are no mapping's string: tcp:80, tcp:80:90:1, tcp:x:1,
\* tcp::1 and the empty string
CodecTexts == { <<"t", "c", "p", ":", "8", "0">>,
                <<"t", "c", "p", ":", "8", "0", ":", "9", "0", ":", "1">>,
                <<"t", "c", "p", ":", "x", ":", "1">>,
                <<"t", "c", "p", ":", ":", "1">>,
                <<>> }

\* the input is a mapping to serialize, or a string to parse
CodecInit ==
    /\ \/ /\ rtpc = "mapping"
          /\ rtMap \in {PortMapping(proto, local, remote) :
                          proto \in CodecProtocols, local \in CodecPorts, remote \in CodecPorts}
          /\ rtStr = <<>>
       \/ /\ rtpc = "serialized"
          /\ rtMap = NoMapping
          /\ rtStr \in CodecTexts
    /\ rtParsed = NoParse /\ rtStr2 = <<>>

\* the mapping is serialized
CodecFormat ==
    /\ rtpc = "mapping"
    /\ rtStr' = Sprintf(rtMap)
    /\ rtpc' = "serialized"
    /\ UNCHANGED <<rtMap, rtParsed, rtStr2, notCodec>>

\* the string is parsed, by each of the two parsers
CodecParse ==
    /\ rtpc = "serialized"
    /\ rtParsed' = [config |-> parseFromStringText(rtStr), types |-> ParsePortMapping(rtStr)]
    /\ rtpc' = "parsed"
    /\ UNCHANGED <<rtMap, rtStr, rtStr2, notCodec>>

\* the parsed mapping is serialized again
CodecReformat ==
    /\ rtpc = "parsed"
    /\ rtParsed.config.ok
    /\ rtStr2' = Sprintf(rtParsed.config.m)
    /\ rtpc' = "reserialized"
    /\ UNCHANGED <<rtMap, rtStr, rtParsed, notCodec>>

NextCodec ==
    \/ CodecFormat
    \/ CodecParse
    \/ CodecReformat

-----------------------------------------------------------------------------
\* SpecCfg: config.Manager, the configuration of the Client
\*
\* The other fields of the configuration loaded are valid and its mode is
\* client; no watcher is registered, so notifyWatchers delivers nothing.

\* the mappings one Manager holds and one load carries, at most
MaxMappings == 3
MaxLoad == 2

\* the mappings tried: valid ones, two of them with the same protocol and
\* local port, and ones with another protocol or a port outside 1..65535
CfgUniverse == { PortMapping("tcp", 80, 22), PortMapping("tcp", 80, 23),
                 PortMapping("tcp", 81, 22), PortMapping("udp", 80, 22),
                 PortMapping("udp", 81, 53), PortMapping("sctp", 80, 22),
                 PortMapping("tcp", 0, 22), PortMapping("tcp", 80, 0),
                 PortMapping("udp", 65536, 22) }

\* the lists of mappings a configuration document can carry
CfgLoads == UNION {[1..n -> CfgUniverse] : n \in 0..MaxLoad}

\* the checks Config.Validate and Manager.AddMapping make of one mapping
MappingValid(m) ==
    /\ m.Protocol = "tcp" \/ m.Protocol = "udp"
    /\ ~(m.LocalPort <= 0 \/ m.LocalPort > 65535)
    /\ ~(m.RemotePort <= 0 \/ m.RemotePort > 65535)

\* Config.Validate returns nil, for a configuration of mode client
Validate(mappings) ==
    /\ Len(mappings) # 0
    /\ \A i \in 1..Len(mappings) : MappingValid(mappings[i])

\* the duplicate check of Manager.AddMapping
AlreadyExists(mappings, m) ==
    \E i \in 1..Len(mappings) :
        mappings[i].Protocol = m.Protocol /\ mappings[i].LocalPort = m.LocalPort

\* append(s[:index], s[index+1:]...) with index counted from 0
RemoveAt(s, index) == SubSeq(s, 1, index) \o SubSeq(s, index + 2, Len(s))

\* NewManager
CfgInit ==
    /\ mgrMappings = <<>> /\ mgrErr = "none"

\* Manager.LoadFromData
LoadFromData ==
    /\ mgrErr # "off"
    /\ \E mappings \in CfgLoads :
          IF Validate(mappings)
          THEN mgrMappings' = mappings /\ mgrErr' = "none"
          ELSE mgrMappings' = mgrMappings /\ mgrErr' = "validation"
    /\ UNCHANGED notCfg

\* Manager.AddMapping
AddMapping ==
    /\ mgrErr # "off"
    /\ Len(mgrMappings) < MaxMappings
    /\ \E m \in CfgUniverse :
          IF ~MappingValid(m)
          THEN mgrMappings' = mgrMappings /\ mgrErr' = "invalid"
          ELSE IF AlreadyExists(mgrMappings, m)
          THEN mgrMappings' = mgrMappings /\ mgrErr' = "exists"
          ELSE mgrMappings' = Append(mgrMappings, m) /\ mgrErr' = "none"
    /\ UNCHANGED notCfg

\* Manager.RemoveMapping
RemoveMapping ==
    /\ mgrErr # "off"
    /\ \E index \in (0 - 1)..MaxMappings :
          IF index < 0 \/ index >= Len(mgrMappings)
          THEN mgrMappings' = mgrMappings /\ mgrErr' = "index"
          ELSE mgrMappings' = RemoveAt(mgrMappings, index) /\ mgrErr' = "none"
    /\ UNCHANGED notCfg

NextCfg ==
    \/ LoadFromData
    \/ AddMapping
    \/ RemoveMapping

-----------------------------------------------------------------------------
\* SpecP2P: forwarding over an established hole-punched path
\*
\* establishP2PConnection has returned on both hosts. On the Client
\* runUDPClientWithHolePunching has bound the local listener and started
\* the two udpForwardP2P tasks; on the Server udpForwardToService has
\* dialled the local service and runs its two loops. The path sockets come
\* from net.ListenUDP or createReusePortUDPConn and are not connected.

\* the datagrams the application and the peers send
MaxDatagrams == 3

\* the sockets and the endpoints beyond them
P2PEndpoints == {"app", "localConn", "clientPath", "serverPath", "serviceConn", "service"}

P2PTasks == {"local->p2p", "p2p->local", "p2p->service", "service->p2p"}

\* the peer endpoint confirmed by the hole punch, seen from each host
PeerOf(sock) == IF sock = "clientPath" THEN "serverPath" ELSE "clientPath"

Datagram2(from, data) == [from |-> from, data |-> data]

\* a datagram leaves socket sock for endpoint to
Deliver(inbox, sock, to, data) ==
    [inbox EXCEPT ![to] = Append(@, Datagram2(sock, data))]

WriteRecord(task, sock, to, data, ok) ==
    [task |-> task, sock |-> sock, to |-> to, data |-> data, ok |-> ok]

P2PInit ==
    /\ hpInbox = [e \in P2PEndpoints |-> <<>>]
    /\ hpBuf = ""
    /\ hpTasks = [t \in P2PTasks |-> "read"]
    /\ hpLog = {}
    /\ hpSent = 0

\* the application sends a datagram to the Client's local listener
P2PAppSend ==
    /\ hpTasks # <<>> /\ hpSent < MaxDatagrams
    /\ hpInbox' = Deliver(hpInbox, "app", "localConn", "query")
    /\ hpSent' = hpSent + 1
    /\ UNCHANGED <<hpBuf, hpTasks, hpLog, notP2P>>

\* a datagram of the peer arrives on a host's path socket
P2PPeerSend ==
    /\ hpTasks # <<>> /\ hpSent < MaxDatagrams
    /\ \E sock \in {"clientPath", "serverPath"} :
          hpInbox' = Deliver(hpInbox, PeerOf(sock), sock, "peer data")
    /\ hpSent' = hpSent + 1
    /\ UNCHANGED <<hpBuf, hpTasks, hpLog, notP2P>>

\* the local service answers a datagram on the socket it came from
P2PServiceEcho ==
    /\ hpTasks # <<>> /\ hpInbox["service"] # <<>>
    /\ LET d == Head(hpInbox["service"])
       IN  hpInbox' = Deliver([hpInbox EXCEPT !["service"] = Tail(@)],
                              "service", d.from, "answer")
    /\ UNCHANGED <<hpBuf, hpTasks, hpLog, hpSent, notP2P>>

\* the two tasks runUDPClientWithHolePunching starts
ForwardTasks == { [task |-> "local->p2p", src |-> "localConn", dst |-> "clientPath"],
                  [task |-> "p2p->local", src |-> "clientPath", dst |-> "localConn"] }

\* one iteration of udpForwardP2P(ctx, src, dst, direction): both sockets
\* are *net.UDPConn, so the datagram read with ReadFromUDP is written with
\* dstUDP.WriteToUDP(buffer[:n], addr), addr being where it came from
udpForwardP2P ==
    /\ hpTasks # <<>>
    /\ \E f \in ForwardTasks :
          /\ hpTasks[f.task] = "read"
          /\ hpInbox[f.src] # <<>>
          /\ LET d == Head(hpInbox[f.src])
                 addr == d.from
             IN  /\ hpInbox' = Deliver([hpInbox EXCEPT ![f.src] = Tail(@)], f.dst, addr, d.data)
                 /\ hpLog' = hpLog \cup {WriteRecord(f.task, f.dst, addr, d.data, TRUE)}
    /\ UNCHANGED <<hpBuf, hpTasks, hpSent, notP2P>>

\* udpForwardToService, the goroutine: p2pConn.Read(buffer)
ServerPathRead ==
    /\ hpTasks # <<>> /\ hpTasks["p2p->service"] = "read"
    /\ hpInbox["serverPath"] # <<>>
    /\ hpBuf' = Head(hpInbox["serverPath"]).data
    /\ hpInbox' = [hpInbox EXCEPT !["serverPath"] = Tail(@)]
    /\ hpTasks' = [hpTasks EXCEPT !["p2p->service"] = "write"]
    /\ UNCHANGED <<hpLog, hpSent, notP2P>>

\* udpForwardToService, the goroutine: serviceConn.Write(buffer[:n]) of
\* the buffer it shares with the other loop
ServerServiceWrite ==
    /\ hpTasks # <<>> /\ hpTasks["p2p->service"] = "write"
    /\ hpInbox' = Deliver(hpInbox, "serviceConn", "service", hpBuf)
    /\ hpLog' = hpLog \cup {WriteRecord("p2p->service", "serviceConn", "service", hpBuf, TRUE)}
    /\ hpTasks' = [hpTasks EXCEPT !["p2p->service"] = "read"]
    /\ UNCHANGED <<hpBuf, hpSent, notP2P>>

\* udpForwardToService, the loop: serviceConn.Read(buffer)
ServerServiceRead ==
    /\ hpTasks # <<>> /\ hpTasks["service->p2p"] = "read"
    /\ hpInbox["serviceConn"] # <<>>
    /\ hpBuf' = Head(hpInbox["serviceConn"]).data
    /\ hpInbox' = [hpInbox EXCEPT !["serviceConn"] = Tail(@)]
    /\ hpTasks' = [hpTasks EXCEPT !["service->p2p"] = "write"]
    /\ UNCHANGED <<hpLog, hpSent, notP2P>>

\* udpForwardToService, the loop: p2pConn.Write(buffer[:n]) on a socket
\* that is not connected fails, and the loop returns
ServerPathWrite ==
    /\ hpTasks # <<>> /\ hpTasks["service->p2p"] = "write"
    /\ hpLog' = hpLog \cup {WriteRecord("service->p2p", "serverPath", "none", hpBuf, FALSE)}
    /\ hpTasks' = [hpTasks EXCEPT !["service->p2p"] = "returned"]
    /\ UNCHANGED <<hpInbox, hpBuf, hpSent, notP2P>>

NextP2P ==
    \/ P2PAppSend
    \/ P2PPeerSend
    \/ P2PServiceEcho
    \/ udpForwardP2P
    \/ ServerPathRead
    \/ ServerServiceWrite
    \/ ServerServiceRead
    \/ ServerPathWrite

-----------------------------------------------------------------------------
\* SpecBus: types.SimpleEventBus
\*
\* A subscription is one call of Subscribe or SubscribeAll; its handler is
\* named by the number of the call. Publish starts a goroutine per handler,
\* which is taken as the delivery of the event to that handler.

\* the subscriptions made and the events published, at most
MaxSubs == 2
MaxEvents == 2

EventTypes == {"mapping.added", "config.changed"}

\* the variable a pointer is taken of: the loop variable h of one iteration
\* of the unsubscribe function, or the parameter handler of one call of
\* Subscribe or SubscribeAll
LoopVariable(sub, i) == <<"h", sub, i>>
Parameter(sub) == <<"handler", sub>>

\* &h == &handler: the addresses of the loop variable and of the parameter
SamePointer(sub, i, handlers) == LoopVariable(sub, i) = Parameter(sub)

\* append(handlers[:i], handlers[i+1:]...) with i counted from 1
WithoutIndex(handlers, i) == SubSeq(handlers, 1, i - 1) \o SubSeq(handlers, i + 1, Len(handlers))

\* the loop of the unsubscribe function of subscription sub
Unsubscribed(handlers, sub) ==
    LET found == { i \in 1..Len(handlers) : SamePointer(sub, i, handlers) }
    IN  IF found = {} THEN handlers
        ELSE WithoutIndex(handlers, CHOOSE i \in found : \A j \in found : i <= j)

\* NewSimpleEventBus
BusInit ==
    /\ ebHandlers = [t \in EventTypes |-> <<>>]
    /\ ebAll = <<>>
    /\ ebClosed = FALSE
    /\ ebSubs = <<>>
    /\ ebLog = {}
    /\ ebEvents = 0

\* SimpleEventBus.Subscribe
BusSubscribe ==
    /\ ebHandlers # <<>> /\ Len(ebSubs) < MaxSubs
    /\ \E t \in EventTypes :
          LET sub == Len(ebSubs) + 1
          IN  IF ebClosed
              THEN /\ ebSubs' = Append(ebSubs, [kind |-> "noop", type |-> t, unsubscribed |-> FALSE])
                   /\ UNCHANGED ebHandlers
              ELSE /\ ebSubs' = Append(ebSubs, [kind |-> "type", type |-> t, unsubscribed |-> FALSE])
                   /\ ebHandlers' = [ebHandlers EXCEPT ![t] = Append(@, sub)]
    /\ UNCHANGED <<ebAll, ebClosed, ebLog, ebEvents, notBus>>

\* SimpleEventBus.SubscribeAll
BusSubscribeAll ==
    /\ ebHandlers # <<>> /\ Len(ebSubs) < MaxSubs
    /\ LET sub == Len(ebSubs) + 1
       IN  IF ebClosed
           THEN /\ ebSubs' = Append(ebSubs, [kind |-> "noop", type |-> "", unsubscribed |-> FALSE])
                /\ UNCHANGED ebAll
           ELSE /\ ebSubs' = Append(ebSubs, [kind |-> "all", type |-> "", unsubscribed |-> FALSE])
                /\ ebAll' = Append(ebAll, sub)
    /\ UNCHANGED <<ebHandlers, ebClosed, ebLog, ebEvents, notBus>>

\* the unsubscribe function a subscription returned is called
BusUnsubscribe ==
    /\ ebHandlers # <<>>
    /\ \E sub \in 1..Len(ebSubs) :
          /\ ~ebSubs[sub].unsubscribed
          /\ ebSubs' = [ebSubs EXCEPT ![sub].unsubscribed = TRUE]
          /\ CASE ebSubs[sub].kind = "type" ->
                    /\ ebHandlers' = [ebHandlers EXCEPT ![ebSubs[sub].type] = Unsubscribed(@, sub)]
                    /\ UNCHANGED ebAll
               [] ebSubs[sub].kind = "all" ->
                    /\ ebAll' = Unsubscribed(ebAll, sub)
                    /\ UNCHANGED ebHandlers
               [] OTHER -> UNCHANGED <<ebHandlers, ebAll>>
    /\ UNCHANGED <<ebClosed, ebLog, ebEvents, notBus>>

\* SimpleEventBus.Publish
BusPublish ==
    /\ ebHandlers # <<>> /\ ebEvents < MaxEvents
    /\ ebEvents' = ebEvents + 1
    /\ \E t \in EventTypes :
          LET to == IF ebClosed THEN {}
                    ELSE {ebHandlers[t][i] : i \in 1..Len(ebHandlers[t])}
                         \cup {ebAll[i] : i \in 1..Len(ebAll)}
          IN  ebLog' = ebLog \cup { [sub |-> sub, event |-> ebEvents + 1, type |-> t,
                                     unsubscribed |-> ebSubs[sub].unsubscribed] : sub \in to }
    /\ UNCHANGED <<ebHandlers, ebAll, ebClosed, ebSubs, notBus>>

\* SimpleEventBus.Close
BusClose ==
    /\ ebHandlers # <<>> /\ ~ebClosed
    /\ ebClosed' = TRUE
    /\ ebHandlers' = [t \in EventTypes |-> <<>>]
    /\ ebAll' = <<>>
    /\ UNCHANGED <<ebSubs, ebLog, ebEvents, notBus>>

NextBus ==
    \/ BusSubscribe
    \/ BusSubscribeAll
    \/ BusUnsubscribe
    \/ BusPublish
    \/ BusClose

-----------------------------------------------------------------------------
\* The specifications; each leaves the variables of the others at rest

BusIdle ==
    /\ ebHandlers = <<>> /\ ebAll = <<>> /\ ebClosed = FALSE
    /\ ebSubs = <<>> /\ ebLog = {} /\ ebEvents = 0

P2PIdle ==
    /\ hpInbox = <<>> /\ hpBuf = "" /\ hpTasks = <<>> /\ hpLog = {} /\ hpSent = 0

CfgIdle ==
    /\ mgrMappings = <<>> /\ mgrErr = "off"

CoordIdle ==
    /\ now = 1
    /\ room = [client |-> Absent, server |-> Absent, mapping_version |-> 0, cver |-> 0]
    /\ spc = "off" /\ wpc = "off" /\ cpc = "off"
    /\ srvClient = [NetworkInfo |-> ZeroNetworkInfo, Mappings |-> <<>>]
    /\ srvPortMappings = <<>> /\ serverData = Absent /\ listeners = {}
    /\ lastMappingVersion = 0 /\ cbData = Absent /\ cbPortMappings = <<>> /\ cbVer = 0
    /\ attempt = 1 /\ cliRaw = Absent
    /\ cliServerData = [NetworkInfo |-> ZeroNetworkInfo, PortMappings |-> <<>>]
    /\ forwarders = {} /\ updates = 0
    /\ srvPosted = FALSE /\ srvFirstPost = Absent /\ srvCurrent = Absent
    /\ handled = [v \in 0..(MaxUpdates + 1) |-> 0] /\ lastVer = 0

ModeIdle ==
    /\ mpc = "off"
    /\ mIn = [mapping |-> M1, allocatedPort |-> 0, clientInfo |-> ClientNet, serverInfo |-> ServerNet,
              localPortFree |-> TRUE, allocatedPortFree |-> TRUE]
    /\ mFwd = NoForwarder
    /\ mPunched = FALSE
    /\ mSrv = [pc |-> "off", l |-> NoListener]
    /\ mEngine = [client |-> "none", server |-> "none"]

SigIdle ==
    /\ sigFile = EmptyStore
    /\ reqs = [i \in 1..NumReqs |-> [NoReq EXCEPT !.pc = "off"]]
    /\ lastCompleted = [role \in Roles |-> Absent]

UDPIdle == UDPInit

SessIdle ==
    /\ tNow = 0 /\ tTable = <<>> /\ tSocks = <<>>
    /\ swpc = "off" /\ swNow = 0 /\ swTodo = {} /\ swKey = "" /\ swBefore = <<>>
    /\ tRet = NoCall
    /\ tTasks = [ctx |-> "off", loop |-> "off", sweeper |-> "off"]
    /\ tAtCancel = {}

ProbeIdle ==
    /\ ppc = "off" /\ pNat = "none" /\ pRes = NoSTUNResult
    /\ pInfo = NoInfo /\ pHist = NoHist

LANIdle ==
    /\ lanIn = [clientInfo |-> ZeroNetworkInfo, serverInfo |-> ZeroNetworkInfo]
    /\ lanOut = [returned |-> FALSE, lan |-> FALSE]

CodecIdle ==
    /\ rtpc = "off" /\ rtMap = NoMapping /\ rtStr = <<>> /\ rtParsed = NoParse /\ rtStr2 = <<>>

FetchIdle ==
    /\ fpc = "off" /\ fNow = 0 /\ fBackoff = 0 /\ fAttempt = 0 /\ fCtx = "off"
    /\ fWait = NoWait /\ fRet = NoReturn

TCPIdle ==
    /\ lnpc = "off" /\ tcpCtx = "off" /\ backlog = 0 /\ pairs = <<>>

PunchIdle ==
    /\ hpc = "off"
    /\ hCfg = [hasPrivate |-> FALSE, IsInitiator |-> FALSE, remotePort |-> 0]
    /\ hAttempt = 0 /\ hOffset = 1 /\ hStep = "begin"
    /\ hSock = NoSock /\ hTried = <<>> /\ hOpen = 0 /\ hResult = NoResult

Init == CoordInit /\ ModeIdle /\ SigIdle /\ UDPIdle /\ PunchIdle /\ SessIdle /\ TCPIdle /\ ProbeIdle /\ LANIdle /\ FetchIdle /\ CodecIdle /\ CfgIdle /\ P2PIdle /\ BusIdle
Spec == Init /\ [][Next]_vars

InitMode == ModeInit /\ CoordIdle /\ SigIdle /\ UDPIdle /\ PunchIdle /\ SessIdle /\ TCPIdle /\ ProbeIdle /\ LANIdle /\ FetchIdle /\ CodecIdle /\ CfgIdle /\ P2PIdle /\ BusIdle
SpecMode == InitMode /\ [][NextMode]_vars

InitSig == SigInit /\ CoordIdle /\ ModeIdle /\ UDPIdle /\ PunchIdle /\ SessIdle /\ TCPIdle /\ ProbeIdle /\ LANIdle /\ FetchIdle /\ CodecIdle /\ CfgIdle /\ P2PIdle /\ BusIdle
SpecSig == InitSig /\ [][NextSig]_vars

InitUDP == UDPInit /\ CoordIdle /\ ModeIdle /\ SigIdle /\ PunchIdle /\ SessIdle /\ TCPIdle /\ ProbeIdle /\ LANIdle /\ FetchIdle /\ CodecIdle /\ CfgIdle /\ P2PIdle /\ BusIdle
SpecUDP == InitUDP /\ [][NextUDP]_vars

InitPunch == PunchInit /\ CoordIdle /\ ModeIdle /\ SigIdle /\ UDPIdle /\ SessIdle /\ TCPIdle /\ ProbeIdle /\ LANIdle /\ FetchIdle /\ CodecIdle /\ CfgIdle /\ P2PIdle /\ BusIdle
SpecPunch == InitPunch /\ [][NextPunch]_vars

InitSess == SessInit /\ CoordIdle /\ ModeIdle /\ SigIdle /\ UDPIdle /\ PunchIdle /\ TCPIdle /\ ProbeIdle /\ LANIdle /\ FetchIdle /\ CodecIdle /\ CfgIdle /\ P2PIdle /\ BusIdle
SpecSess == InitSess /\ [][NextSess]_vars

InitTCP == TCPInit /\ CoordIdle /\ ModeIdle /\ SigIdle /\ UDPIdle /\ PunchIdle /\ SessIdle /\ ProbeIdle /\ LANIdle /\ FetchIdle /\ CodecIdle /\ CfgIdle /\ P2PIdle /\ BusIdle
SpecTCP == InitTCP /\ [][NextTCP]_vars

InitProbe == ProbeInit /\ CoordIdle /\ ModeIdle /\ SigIdle /\ UDPIdle /\ PunchIdle /\ SessIdle /\ TCPIdle /\ LANIdle /\ FetchIdle /\ CodecIdle /\ CfgIdle /\ P2PIdle /\ BusIdle
SpecProbe == InitProbe /\ [][NextProbe]_vars

InitLAN == LANInit /\ CoordIdle /\ ModeIdle /\ SigIdle /\ UDPIdle /\ PunchIdle /\ SessIdle /\ TCPIdle /\ ProbeIdle /\ FetchIdle /\ CodecIdle /\ CfgIdle /\ P2PIdle /\ BusIdle
SpecLAN == InitLAN /\ [][NextLAN]_vars

InitFetch == FetchInit /\ CoordIdle /\ ModeIdle /\ SigIdle /\ UDPIdle /\ PunchIdle /\ SessIdle /\ TCPIdle
                       /\ ProbeIdle /\ LANIdle /\ CodecIdle /\ CfgIdle /\ P2PIdle /\ BusIdle
SpecFetch == InitFetch /\ [][NextFetch]_vars

InitCodec == CodecInit /\ CoordIdle /\ ModeIdle /\ SigIdle /\ UDPIdle /\ PunchIdle /\ SessIdle /\ TCPIdle
                       /\ ProbeIdle /\ LANIdle /\ FetchIdle /\ CfgIdle /\ P2PIdle /\ BusIdle
SpecCodec == InitCodec /\ [][NextCodec]_vars

InitCfg == CfgInit /\ ModeIdle /\ SigIdle /\ UDPIdle /\ PunchIdle /\ SessIdle /\ TCPIdle
                       /\ ProbeIdle /\ LANIdle /\ FetchIdle /\ CodecIdle /\ CoordIdle /\ P2PIdle /\ BusIdle
SpecCfg == InitCfg /\ [][NextCfg]_vars

InitP2P == P2PInit /\ ModeIdle /\ SigIdle /\ UDPIdle /\ PunchIdle /\ SessIdle /\ TCPIdle
                       /\ ProbeIdle /\ LANIdle /\ FetchIdle /\ CodecIdle /\ CfgIdle /\ CoordIdle /\ BusIdle
SpecP2P == InitP2P /\ [][NextP2P]_vars

InitBus == BusInit /\ ModeIdle /\ SigIdle /\ UDPIdle /\ PunchIdle /\ SessIdle /\ TCPIdle
                       /\ ProbeIdle /\ LANIdle /\ FetchIdle /\ CodecIdle /\ CfgIdle /\ P2PIdle
                       /\ CoordIdle
SpecBus == InitBus /\ [][NextBus]_vars

\* the steps of the TCP listener that the Go scheduler runs whenever they
\* can be taken: the loop's select, Accept with a connection waiting, and
\* the steps of the goroutines of the accepted connections. That a client
\* connects, that Accept fails, or that the context is cancelled is up to
\* the environment.
TCPScheduled ==
    \/ TCPLoopCheck
    \/ (backlog > 0 /\ TCPAccept)
    \/ \E i \in 1..Len(pairs) :
          \/ TCPDial(i)
          \/ TCPPairDone(i)
          \/ \E d \in Dirs : TCPCopy(i, d) \/ TCPCopyDone(i, d) \/ TCPProxyCancel(i, d)

SpecTCPFair == SpecTCP /\ WF_vars(TCPScheduled)

\* one relay listener, of either protocol
SpecListener == (InitTCP \/ InitSess) /\ [][NextTCP \/ NextSess]_vars


-----------------------------------------------------------------------------
\* Properties

\* the allocations of a ServerRegistration payload
Allocations(reg) == IF reg.present /\ reg.doc.valid /\ "portMappings" \in DOMAIN reg.doc
                    THEN reg.doc.portMappings ELSE <<>>

\* the well-formed mappings of a ClientRegistration payload
RequestedMappings(reg) ==
    IF reg.present /\ reg.doc.valid /\ "mappings" \in DOMAIN reg.doc
    THEN { parseFromString(x) : x \in { y \in Range(reg.doc.mappings) : ParseOK(y) } }
    ELSE {}

\* C1: in UDP relay mode every datagram a source sends to a forwarding
\* listener is written to the upstream target, and every response of the
\* upstream is written to the source it answers and to no other endpoint:
\* on the Client to the ClientAddr of the session it was read from, on the
\* Server to a peer and never back to the local service.
C1_RelayRouting ==
    /\ \A w \in cOut : w.to = w.sess
    /\ \A w \in sOut : IF w.readFrom = Service THEN w.to \in Sources ELSE w.to = Service

\* C2: once the watcher has nothing left to observe (it is between ticks and
\* CheckMappingUpdates reports no update), the registration the Server
\* published last contains an allocation for every mapping of the Client's
\* current registration.
C2_UpdatePublished ==
    (spc = "running" /\ wpc = "idle" /\ ~has_update(room, lastMappingVersion))
        => \A m \in RequestedMappings(room.client) :
              \E i \in 1..Len(Allocations(srvCurrent)) :
                  Allocations(srvCurrent)[i].ClientMapping = m

\* C3: every publish by the Server puts the Server's current
\* ServerRegistration into the room, so none replaces it by an earlier one.
C3_PublishesCurrent ==
    [][(room'.server # room.server) => (room'.server = srvCurrent')]_vars

\* C4: the allocatedPort the Server publishes for a mapping does not change
\* while the mapping stays in the Client's active set.
C4_PortsStable ==
    [][\A i \in 1..Len(Allocations(srvCurrent)), j \in 1..Len(Allocations(srvCurrent')) :
          LET old == Allocations(srvCurrent)[i]
              new == Allocations(srvCurrent')[j]
          IN  (/\ old.ClientMapping = new.ClientMapping
               /\ old.ClientMapping \in RequestedMappings(room.client)
               /\ old.ClientMapping \in RequestedMappings(room'.client))
              => new.AllocatedPort = old.AllocatedPort]_vars

\* C5: the Server processes each version of the Client registration at most
\* once, at bootstrap or in one watcher callback.
C5_ProcessedOnce == \A v \in DOMAIN handled : handled[v] <= 1

\* C6: no update is lost: whenever the watcher is between ticks and the room
\* holds a Client registration other than the one the Server processed
\* last, CheckMappingUpdates reports an update.
C6_NoLostUpdate ==
    (spc = "running" /\ wpc = "idle" /\ room.cver # lastVer)
        => has_update(room, lastMappingVersion)

\* C7: a fetch of (room, role) that starts after a publish for the role has
\* completed, and that no publish or mapping update for the role overlaps,
\* returns the payload of that publish.
C7_LastWriterWins ==
    \A i \in 1..NumReqs :
        (reqs[i].kind = "GET" /\ reqs[i].pc = "done" /\ reqs[i].strict)
            => reqs[i].result = reqs[i].expect

C9_StartsOnlyOnStructured ==
    /\ attempt \in 1..5
    /\ cpc \in {"start", "ready"} =>
          /\ cliRaw.present /\ cliRaw.doc.valid /\ ~(cliRaw.pipe /\ ~cliRaw.brace)
          /\ cliServerData.PortMappings = Allocations(cliRaw)
    /\ forwarders # {} => cpc = "ready"
    /\ cpc = "fatal" => attempt = 5 /\ forwarders = {}
    /\ (cpc = "fetch" /\ attempt > 1) =>
          ~(cliRaw.present /\ cliRaw.doc.valid /\ ~(cliRaw.pipe /\ ~cliRaw.brace))

C9_Witness == cpc = "ready" /\ attempt > 1 /\ forwarders # {}

C11_FallbackToRelay ==
    /\ mEngine.client = "failed" =>
          /\ mpc = "forwarding"
          /\ mFwd = Forwarder("runUDPClient", mIn.mapping.LocalPort,
                              mIn.serverInfo.PublicAddr.ip, mIn.allocatedPort)
    /\ mEngine.server = "failed" =>
          /\ mSrv.pc = "listening"
          /\ mSrv.l.fn = "runUDPServerOnPort" /\ mSrv.l.bound
          /\ mSrv.l.port = mIn.allocatedPort

\* C12: whenever establish returns a path, the returned socket has had a
\* confirmed exchange in both directions with the peer: a datagram written to
\* it reached the peer and a datagram of the peer was read from it.
C12_BidirectionalExchange ==
    (hResult.returned /\ hResult.Success) =>
        /\ hResult.Conn.sent > 0 /\ hResult.Conn.delivered
        /\ hResult.Conn.recv = "peer"

\* C13: every socket a successful establish returns, whichever strategy
\* produced it, has neither a read deadline nor a write deadline set.
C13_DeadlinesCleared ==
    (hResult.returned /\ hResult.Success) =>
        ~hResult.Conn.rd /\ ~hResult.Conn.wd

\* the attempts establish makes when every strategy fails: LAN direct (when
\* both private addresses are known), enhanced simultaneous send, five direct
\* public handshakes, one port prediction probe per target port in range
AllAttempts ==
    LET probes == Cardinality({ d \in {0, 1, -1, 2, -2, 3, -3, 4, -4, 5, -5} :
                                  hCfg.remotePort + d \in 1..65535 })
    IN  (IF hCfg.hasPrivate THEN <<"lan">> ELSE <<>>)
        \o <<"enhanced">>
        \o [i \in 1..5 |-> "direct"]
        \o [i \in 1..probes |-> "predict"]

\* C14: establish attempts the strategies in the order LAN direct, enhanced
\* simultaneous send, direct public handshake (at most retryCount = 5
\* attempts), port prediction, each only after every earlier one has failed;
\* it returns the socket of the first strategy that succeeds, and an error
\* only after all strategies have failed.
C14_StrategyOrder ==
    /\ Len(hTried) <= Len(AllAttempts)
    /\ \A i \in 1..Len(hTried) : hTried[i] = AllAttempts[i]
    /\ hResult.returned <=> hpc \in {"success", "failed"}
    /\ hpc = "success" =>
          /\ hResult.Success
          /\ Len(hTried) > 0 /\ hResult.by = hTried[Len(hTried)]
          /\ hResult.Conn = hSock /\ hSock.state = "open"
    /\ hpc = "failed" => ~hResult.Success /\ hTried = AllAttempts

C14_Witness ==
    /\ hpc = "success" /\ hResult.by = "predict"
    /\ hCfg.hasPrivate /\ Len(hTried) = 9


\* the session table is a map of keys to sessions around distinct sockets,
\* open while the entry is in the table (the sweep closes the socket of
\* key swKey one step before it deletes the entry)
TableOK(table, socks, closing) ==
    /\ \A k \in DOMAIN table :
          /\ table[k].ClientAddr = k
          /\ table[k].ServerConn \in 1..Len(socks)
          /\ k # closing => socks[table[k].ServerConn] = "open"
    /\ \A k1, k2 \in DOMAIN table :
          table[k1].ServerConn = table[k2].ServerConn => k1 = k2

\* C15: after any sequence of getOrCreate and sweeper operations each source
\* has at most one session and each session holds one upstream socket of its
\* own; a getOrCreate for a source that has a session returns that session,
\* with lastActivity refreshed, and dials no socket
C15_OneSessionPerSource ==
    [][ /\ TableOK(tTable', tSocks', swKey')
        /\ \A k \in DOMAIN tTable \cap DOMAIN tTable' :
              /\ tTable'[k].ServerConn = tTable[k].ServerConn
              /\ tTable'[k] # tTable[k] =>
                    /\ tTable'[k].LastActivity = tNow
                    /\ tRet' = [key |-> k, ok |-> TRUE, ServerConn |-> tTable[k].ServerConn]
        /\ Len(tSocks') > Len(tSocks) => tRet'.key \notin DOMAIN tTable
        /\ (tRet' # tRet /\ tRet'.key \in DOMAIN tTable) =>
              /\ tRet'.ok
              /\ tRet'.ServerConn = tTable[tRet'.key].ServerConn
              /\ tSocks' = tSocks
              /\ tRet'.key \in DOMAIN tTable'
              /\ tTable'[tRet'.key].LastActivity = tNow
      ]_vars

\* two sessions, and the older one was returned again after the younger one
\* was created
C15_Witness ==
    /\ DOMAIN tTable = Sources
    /\ tRet.ok /\ tRet.ServerConn = 1
    /\ \E k1, k2 \in DOMAIN tTable :
          /\ tRet.key = k1
          /\ tTable[k1].ServerConn = 1 /\ tTable[k2].ServerConn = 2
          /\ tTable[k1].LastActivity > tTable[k2].LastActivity
    /\ Len(tSocks) = 2

\* C16: a sweeper tick removes exactly the sessions idle for longer than
\* sessionTimeout, each one's socket closed before its entry goes; the
\* sessions with more recent activity stay in the table, socket open
C16_SweepRemovesExpired ==
    swpc = "sweeping" =>
        /\ \A k \in DOMAIN tTable : k \in DOMAIN swBefore /\ tTable[k] = swBefore[k]
        /\ \A k \in DOMAIN swBefore :
              /\ k \notin DOMAIN tTable =>
                    /\ tSocks[swBefore[k].ServerConn] = "closed"
                    /\ swNow - swBefore[k].LastActivity > sessionTimeout
              /\ (k \in DOMAIN tTable /\ k # swKey) =>
                    tSocks[swBefore[k].ServerConn] = "open"
              /\ (swTodo = {} /\ swKey = "") =>
                    (k \in DOMAIN tTable <=>
                        swNow - swBefore[k].LastActivity <= sessionTimeout)

\* a sweep is over that removed one session and kept one idle for exactly
\* the timeout
C16_Witness ==
    /\ swpc = "sweeping" /\ swTodo = {} /\ swKey = ""
    /\ \E k1, k2 \in DOMAIN swBefore :
          /\ k1 \notin DOMAIN tTable
          /\ k2 \in DOMAIN tTable
          /\ swNow - swBefore[k2].LastActivity = sessionTimeout


\* C18: after cancellation the upstream socket of every session that was in
\* the session table at the time of cancel is eventually closed: at the
\* latest when the listener loop has returned and the sweeper has exited,
\* for no goroutine of the listener is left to close it
C18_SessionsClosedOnCancel ==
    (tTasks.loop = "returned" /\ tTasks.sweeper = "exited") =>
        \A id \in tAtCancel : tSocks[id] = "closed"

\* C17: after the root context has been cancelled no listener accepts a new
\* TCP connection
C17_NoAcceptAfterCancel ==
    \A i \in 1..Len(pairs) : ~pairs[i].afterCancel

\* C19: when a copy direction of a TCP pair ends with an error, or the
\* context is cancelled, both endpoints of the pair are closed; a finished
\* pair never keeps one endpoint open while the other is closed
C19_PairTornDown ==
    \A i \in 1..Len(pairs) :
        /\ \A d \in Dirs :
              pairs[i].px[d] = "returned" =>
                  /\ pairs[i].cause[d] \in {"eof", "error", "closed", "cancel"}
                  /\ pairs[i].c = "closed" /\ pairs[i].peer = "closed"
        /\ pairs[i].state = "finished" =>
              pairs[i].c = "closed" /\ pairs[i].peer # "open"

\* one direction has ended with an error while the other was still copying,
\* and one pair was ended by cancellation
C19_Witness ==
    \E i \in 1..Len(pairs) :
        /\ pairs[i].cause["c2p"] = "error"
        /\ pairs[i].px["p2c"] = "copying"
        /\ pairs[i].c = "closed" /\ pairs[i].peer = "closed"

\* C20: half-close is preserved: after a clean EOF in one direction the
\* bytes of the opposite direction go on being delivered, in order, until
\* that direction ends too: unless an error or the cancellation ends it, it
\* ends with its whole stream delivered
C20_HalfClosePreserved ==
    \A i \in 1..Len(pairs) : \A d \in Dirs :
        (/\ pairs[i].cause[d] = "eof"
         /\ pairs[i].px[Opp(d)] = "returned"
         /\ pairs[i].cause[Opp(d)] \notin {"error", "cancel"})
        => /\ pairs[i].todo[Opp(d)] = <<>>
           /\ pairs[i].got[Opp(d)] = Stream(Len(pairs[i].got[Opp(d)]))

\* C21: every datagram the relay listeners write carries the bytes of the
\* one datagram its goroutine was started for: the goroutine of a session
\* writes upstream a datagram received from the source of that session, and
\* the Server listener writes to the service the datagram of the peer it
\* read it from
C21_PayloadIntact ==
    /\ \A m \in toUp : m.data[1] = m.sess
    /\ \A w \in sOut : w.readFrom \in Sources => w.data[1] = w.readFrom


\* C22: a failed dial for an accepted TCP stream closes the accepted socket
\* and touches nothing else, a failed session creation leaves the session
\* table, the sockets and the tasks of the UDP listener as they were, and a
\* listener loop returns only after the cancellation: the listener keeps
\* serving later streams and datagrams
C22_FailureDropsOnlyCurrent ==
    [][ /\ \A i \in 1..Len(pairs) :
              (pairs[i].state = "dialing" /\ pairs'[i].state = "finished") =>
                  /\ pairs'[i].c = "closed"
                  /\ lnpc' = lnpc /\ backlog' = backlog /\ tcpCtx' = tcpCtx
                  /\ Len(pairs') = Len(pairs)
                  /\ \A j \in 1..Len(pairs) : j # i => pairs'[j] = pairs[j]
        /\ (tRet' # tRet /\ ~tRet'.ok) =>
              /\ tTable' = tTable /\ tSocks' = tSocks
              /\ tTasks' = tTasks /\ swpc' = swpc
        /\ lnpc' = "returned" => tcpCtx = "cancelled"
        /\ tTasks'.loop = "returned" => tTasks.ctx = "cancelled"
      ]_vars

\* the dial of the first stream failed and the listener, not cancelled, has
\* accepted a second stream, which is being forwarded
C22_Witness ==
    /\ Len(pairs) = 2
    /\ pairs[1].state = "finished" /\ pairs[1].peer = "none" /\ pairs[1].c = "closed"
    /\ pairs[2].state = "copying" /\ ~pairs[2].afterCancel
    /\ tcpCtx = "live"


\* C23: the ports allocated in sequence for the mappings of one
\* ServerRegistration are distinct values in 1..65535
C23_DistinctPorts ==
    LET as == Allocations(srvCurrent)
    IN  /\ \A i \in 1..Len(as) : as[i].AllocatedPort \in 1..65535
        /\ \A i, j \in 1..Len(as) :
              as[i].AllocatedPort = as[j].AllocatedPort => i = j


\* C24: the probe classifies Symmetric, with CanHolePunch false, only when
\* the two bindings it compared reflected different endpoints; when they
\* reflected equal endpoints the classification is not Symmetric
C24_SymmetricOnlyIfDifferent ==
    \A r \in {pRes, pInfo.STUNResult} :
        r.NATType = "Symmetric" =>
            /\ Len(r.Mappings) >= 2
            /\ r.Mappings[1] # r.Mappings[2]
            /\ ~r.CanHolePunch

\* the probe is over, its two bindings reflected equal endpoints and the
\* classification is another than Symmetric
C24_Witness ==
    /\ ppc = "done"
    /\ Len(pInfo.STUNResult.Mappings) >= 2
    /\ pInfo.STUNResult.Mappings[1] = pInfo.STUNResult.Mappings[2]
    /\ pInfo.STUNResult.NATType \in {"FullCone", "RestrictedCone"}
    /\ pInfo.STUNResult.CanHolePunch

\* C25: the second binding is sent from the local endpoint of the first, so
\* a host behind a NAT that maps a local endpoint to one public endpoint
\* whatever the destination is never classified Symmetric nor reported with
\* CanHolePunch false
C25_SameLocalEndpoint ==
    pNat \in {"none", "cone"} =>
        /\ (pHist.b1 # 0 /\ pHist.b2 # 0) => pHist.b2 = pHist.b1
        /\ pRes.NATType # "Symmetric"
        /\ ppc = "done" => pInfo.STUNResult.CanHolePunch

\* C26: when the classification fails and the basic binding learns the
\* reflected endpoint the probe yields a NetworkInfo with NATType Unknown and
\* CanHolePunch true; it returns an error, fatal to startup, exactly when
\* the reflected endpoint could not be learned at all; a private address
\* that could not be learned fails nothing
C26_DegradedProbe ==
    /\ pInfo.err <=> ppc = "fatal"
    /\ pInfo.err <=> (pHist.nat /\ pHist.basic)
    /\ ppc = "done" =>
          /\ pInfo.PublicAddr # NoAddr
          /\ pInfo.STUNResult.PublicAddr = pInfo.PublicAddr
          /\ pHist.nat =>
                /\ pInfo.STUNResult.NATType = "Unknown"
                /\ pInfo.STUNResult.CanHolePunch

\* the private address was not learned, the classification failed, and the
\* probe has returned the degraded NetworkInfo
C26_Witness ==
    /\ ppc = "done" /\ pHist.private /\ pHist.nat
    /\ ~pInfo.err /\ pInfo.PrivateAddr = NoAddr
    /\ pInfo.STUNResult.NATType = "Unknown"


\* an RFC1918 address
RFC1918(ip) ==
    /\ ip # NoIP
    /\ \/ ip[1] = 10
       \/ ip[1] = 172 /\ ip[2] \in 16..31
       \/ ip[1] = 192 /\ ip[2] = 168

\* C27: the LAN predicate is true if and only if both public IPs are equal,
\* or both private IPs are RFC1918 addresses that share a /24, or the /16
\* inside 192.168.0.0/16, or the /8 inside 10.0.0.0/8, or the /12 inside
\* 172.16.0.0/12
C27_LANPredicate ==
    lanOut.returned =>
        LET cpub == lanIn.clientInfo.PublicAddr.ip
            spub == lanIn.serverInfo.PublicAddr.ip
            c == lanIn.clientInfo.PrivateAddr.ip
            v == lanIn.serverInfo.PrivateAddr.ip
        IN  lanOut.lan <=>
                \/ cpub # NoIP /\ cpub = spub
                \/ /\ RFC1918(c) /\ RFC1918(v)
                   /\ \/ c[1] = v[1] /\ c[2] = v[2] /\ c[3] = v[3]
                      \/ c[1] = 192 /\ v[1] = 192
                      \/ c[1] = 10 /\ v[1] = 10
                      \/ c[1] = 172 /\ v[1] = 172

\* different public IPs, private addresses at the two ends of 172.16.0.0/12:
\* the predicate has returned true
C27_Witness ==
    /\ lanOut.returned /\ lanOut.lan
    /\ lanIn.clientInfo.PublicAddr.ip # lanIn.serverInfo.PublicAddr.ip
    /\ lanIn.clientInfo.PrivateAddr.ip = <<172, 16, 0, 1>>
    /\ lanIn.serverInfo.PrivateAddr.ip = <<172, 31, 1, 1>>

\* C28: in WaitForPeerData the backoff value never exceeds maxBackoff (5 s),
\* and no wait before the next poll is longer than that.
C28_BackoffCapped ==
    /\ fBackoff <= maxBackoff
    /\ fWait.d <= maxBackoff

C30_RoundTrip ==
    (/\ rtMap.Protocol \in {tcpText, udpText}
     /\ rtMap.LocalPort \in 1..65535
     /\ rtMap.RemotePort \in 1..65535) =>
        /\ rtpc \in {"parsed", "reserialized"} =>
              /\ rtParsed.config = Parsed(rtMap)
              /\ rtParsed.types = Parsed(rtMap)
        /\ rtpc = "reserialized" => rtStr2 = rtStr

\* udp:65535:5000 has been serialized, parsed and serialized again
C30_Witness ==
    /\ rtpc = "reserialized"
    /\ rtMap = PortMapping(udpText, 65535, 5000)
    /\ rtStr = <<"u", "d", "p", ":", "6", "5", "5", "3", "5", ":", "5", "0", "0", "0">>

\* the string has exactly three colon-separated fields, the first tcp or
\* udp in any case, the other two integers in 1..65535
WellFormed(s) ==
    LET parts == Split(s, ":")
    IN  /\ Len(parts) = 3
        /\ ToLowerText(parts[1]) \in {tcpText, udpText}
        /\ Atoi(parts[2]).ok /\ Atoi(parts[2]).n \in 1..65535
        /\ Atoi(parts[3]).ok /\ Atoi(parts[3]).n \in 1..65535

\* C31: a string that is not well formed is refused by the parser of the
\* configuration and of the Server (parseFromString) and by
\* ParsePortMapping, and neither yields a mapping.
C31_InvalidRejected ==
    (rtpc \in {"parsed", "reserialized"} /\ ~WellFormed(rtStr)) =>
        /\ rtParsed.config = ParseError
        /\ rtParsed.types = ParseError

\* C32: no two mappings held by the Manager have the same protocol and
\* local port.
C32_UniqueLocalPort ==
    \A i, j \in 1..Len(mgrMappings) :
        (i # j) => ~(/\ mgrMappings[i].Protocol = mgrMappings[j].Protocol
                     /\ mgrMappings[i].LocalPort = mgrMappings[j].LocalPort)

\* C33: every allocation a Client can read in the Server's registration at
\* the signaling endpoint has a listener of its protocol bound on its
\* allocated port.
C33_ListenerBeforePublish ==
    \A i \in 1..Len(Allocations(room.server)) :
        LET pm == Allocations(room.server)[i]
        IN  \E l \in listeners :
                /\ l.port = pm.AllocatedPort
                /\ l.protocol = pm.ClientMapping.Protocol
                /\ l.bound

\* C34: over a hole-punched path every datagram the Client reads from its
\* local listener is written on the path socket to the peer, every
\* datagram it reads from the path socket is written by the local listener
\* to the application, and every answer the Server reads from the local
\* service is written on the path socket to the peer.
C34_PathForwarding ==
    \A w \in hpLog :
        /\ w.task = "local->p2p" =>
              w.ok /\ w.sock = "clientPath" /\ w.to = PeerOf("clientPath")
        /\ w.task = "p2p->local" =>
              w.ok /\ w.sock = "localConn" /\ w.to = "app"
        /\ w.task = "service->p2p" =>
              w.ok /\ w.sock = "serverPath" /\ w.to = PeerOf("serverPath")

\* C35: a strategy reports success only on a datagram that came from the
\* expected peer endpoint: the socket of a successful result has read its
\* datagram from the peer.
C35_SuccessOnlyFromPeer ==
    (hResult.returned /\ hResult.Success) => hResult.Conn.recv = "peer"

\* C38: when performSynchronizedHolePunching has failed, no socket opened
\* by a strategy is still open; when it has succeeded, one is, the socket
\* of the result.
C38_SocketsAccounted ==
    hResult.returned =>
        IF hResult.Success
        THEN hOpen = 1 /\ hResult.Conn.state = "open" /\ hSock = hResult.Conn
        ELSE hOpen = 0 /\ hSock.state # "open"

\* the fifth attempt of strategy 3 has succeeded, after the failure of
\* strategies 1 and 2 and of four attempts
C38_Witness ==
    /\ hResult.returned /\ hResult.Success
    /\ hResult.by = "direct" /\ hAttempt = retryCount - 1
    /\ Len(hTried) >= 6
    /\ hOpen = 1

\* C36: for a UDP mapping whose ports can be bound, once both hosts have
\* settled they are in the same forwarding mode: the Client forwards over
\* a hole-punched path only while the Server bridges that path to the
\* service, and relays to the allocated port only while the Server has a
\* relay listener bound on it.
C36_SameMode ==
    (/\ mIn.mapping.Protocol = "udp"
     /\ mIn.localPortFree /\ mIn.allocatedPortFree
     /\ mpc = "forwarding"
     /\ mSrv.pc \in {"forwarding", "listening"}) =>
        /\ mFwd.fn = "runUDPClientWithHolePunching" => mSrv.pc = "forwarding"
        /\ mFwd.fn = "runUDPClient" =>
              /\ mSrv.pc = "listening"
              /\ mSrv.l.fn = "runUDPServerOnPort" /\ mSrv.l.bound
              /\ mSrv.l.port = mIn.allocatedPort

\* C37: once the root context is cancelled the TCP listener eventually
\* returns (and its deferred ln.Close() releases the port), whether or not
\* another connection arrives.
C37_ListenerTerminates ==
    (tcpCtx = "cancelled") ~> (lnpc = "returned")

\* C39: an event published after the unsubscribe function of a
\* subscription was called is not delivered to its handler, and is
\* delivered to every handler still subscribed to it while the bus is open.
C39_UnsubscribeStops ==
    /\ \A d \in ebLog : ~d.unsubscribed
    /\ ~ebClosed =>
          \A sub \in 1..Len(ebSubs) :
              (~ebSubs[sub].unsubscribed /\ ebSubs[sub].kind # "noop") =>
                  \/ sub \in {ebAll[i] : i \in 1..Len(ebAll)}
                  \/ sub \in {ebHandlers[ebSubs[sub].type][i] :
                                 i \in 1..Len(ebHandlers[ebSubs[sub].type])}

=============================================================================
